---- MODULE Spec2Model ----
(***************************************************************************)
(* A model of CloudCompareMCP: the chat window (src/ccChatWindow.py) and   *)
(* the API scanner (src/ccAPIScanner.py).                                  *)
(*                                                                         *)
(* Text is modelled as a sequence of one-character strings, so that the    *)
(* Python string methods the code uses (strip, split, lower, startswith,   *)
(* "in", count, replace, slicing) are computed and not assumed.            *)
(***************************************************************************)
EXTENDS Integers, Sequences, FiniteSets, TLC

VARIABLES
    \* ---- ChatWindow (src/ccChatWindow.py:500-871)
    chat_history,         \* ordered dict: chat id -> title, messages
    historyList,          \* the sidebar: a list of ChatHistoryItem widgets
    current_chat_id,      \* id of the session shown, or None
    messagesLayout,       \* the ChatMessage widgets on display
    statusbar,            \* the status bar text
    session_file,         \* chat_history.json on disk
    now,                  \* the wall clock, in seconds
    running,              \* FALSE once the application has quit
    last_call,            \* what the last handler did (its observable outcome)
    \* ---- CloudCompareAI (src/ccChatWindow.py:128-393)
    api_docs,             \* the knowledge-base document loaded at construction
    conversation_history, \* list of {role, content}
    last_request,         \* the messages array of the last chat-completion request
    \* ---- inputs under construction for the pure functions
    text_in,              \* the text argument being assembled (a list of lines or a string)
    text_out,             \* the result of the last call on text_in
    \* ---- CloudCompareAPIScan (src/ccAPIScanner.py)
    api_data,             \* the scanner's document
    output_file           \* the JSON file the scanner writes

vars == <<chat_history, historyList, current_chat_id, messagesLayout, statusbar,
          session_file, now, running, last_call, api_docs, conversation_history,
          last_request, text_in, text_out, api_data, output_file>>

guiVars == <<chat_history, historyList, current_chat_id, messagesLayout, statusbar,
             session_file, now, running>>
aiVars == <<api_docs, conversation_history, last_request>>
textVars == <<text_in, text_out>>
scanVars == <<api_data, output_file>>

None == "None"

(***************************************************************************)
(* Python str methods on sequences of characters.                          *)
(***************************************************************************)
IsSpace(c) == c \in {" ", "\n", "\t"}

RECURSIVE LStrip(_)
LStrip(s) == IF s # <<>> /\ IsSpace(Head(s)) THEN LStrip(Tail(s)) ELSE s

RECURSIVE RStrip(_)
RStrip(s) ==
    IF s # <<>> /\ IsSpace(s[Len(s)]) THEN RStrip(SubSeq(s, 1, Len(s) - 1)) ELSE s

Strip(s) == RStrip(LStrip(s))

StartsWith(s, p) == Len(p) <= Len(s) /\ SubSeq(s, 1, Len(p)) = p

EndsWith(s, p) == Len(p) <= Len(s) /\ SubSeq(s, Len(s) - Len(p) + 1, Len(s)) = p

\* s[i:i+len(p)] == p, with i a 1-based position
MatchAt(s, p, i) == i >= 1 /\ i + Len(p) - 1 <= Len(s) /\ SubSeq(s, i, i + Len(p) - 1) = p

\* p in s
Contains(s, p) == \E i \in 1..(Len(s) + 1) : MatchAt(s, p, i)

\* s.rindex(p), 1-based; only used where p in s
RIndex(s, p) == CHOOSE i \in 1..(Len(s) + 1) :
    MatchAt(s, p, i) /\ \A j \in (i + 1)..(Len(s) + 1) : ~MatchAt(s, p, j)

\* s.count(p): non-overlapping occurrences, scanning from the left (p non-empty)
RECURSIVE CountFrom(_, _, _)
CountFrom(s, p, i) ==
    IF i + Len(p) - 1 > Len(s) THEN 0
    ELSE IF MatchAt(s, p, i) THEN 1 + CountFrom(s, p, i + Len(p))
    ELSE CountFrom(s, p, i + 1)

Count(s, p) == CountFrom(s, p, 1)

\* s.split(sep) for a one-character separator: always at least one field
RECURSIVE SplitOn(_, _)
SplitOn(s, sep) ==
    IF \A i \in 1..Len(s) : s[i] # sep THEN <<s>>
    ELSE LET k == CHOOSE i \in 1..Len(s) : s[i] = sep /\ \A j \in 1..(i - 1) : s[j] # sep
         IN  <<SubSeq(s, 1, k - 1)>> \o SplitOn(SubSeq(s, k + 1, Len(s)), sep)

\* sep.join(parts)
RECURSIVE Join(_, _)
Join(parts, sep) ==
    IF parts = <<>> THEN <<>>
    ELSE IF Len(parts) = 1 THEN parts[1]
    ELSE parts[1] \o sep \o Join(Tail(parts), sep)

\* s.split(): fields separated by runs of whitespace, no empty fields
RECURSIVE SplitWords(_)
SplitWords(s) ==
    LET t == LStrip(s) IN
    IF t = <<>> THEN <<>>
    ELSE LET n == IF \E i \in 1..Len(t) : IsSpace(t[i])
                  THEN (CHOOSE i \in 1..Len(t) :
                            IsSpace(t[i]) /\ \A j \in 1..(i - 1) : ~IsSpace(t[j])) - 1
                  ELSE Len(t)
         IN  <<SubSeq(t, 1, n)>> \o SplitWords(SubSeq(t, n + 1, Len(t)))

UpperCase == <<"A", "B", "C", "D", "E", "F", "G", "H", "I", "J", "K", "L", "M",
               "N", "O", "P", "Q", "R", "S", "T", "U", "V", "W", "X", "Y", "Z">>
LowerCase == <<"a", "b", "c", "d", "e", "f", "g", "h", "i", "j", "k", "l", "m",
               "n", "o", "p", "q", "r", "s", "t", "u", "v", "w", "x", "y", "z">>

IsUpper(c) == \E i \in 1..Len(UpperCase) : UpperCase[i] = c
IsLower(c) == \E i \in 1..Len(LowerCase) : LowerCase[i] = c
IsAlpha(c) == IsUpper(c) \/ IsLower(c)

LowerChar(c) == IF IsUpper(c) THEN LowerCase[CHOOSE i \in 1..Len(UpperCase) : UpperCase[i] = c]
                ELSE c
UpperChar(c) == IF IsLower(c) THEN UpperCase[CHOOSE i \in 1..Len(LowerCase) : LowerCase[i] = c]
                ELSE c

\* s.lower()
Lower(s) == [i \in 1..Len(s) |-> LowerChar(s[i])]

\* s.title(): a letter after a non-letter is upper-cased, any other letter lower-cased
Title(s) == [i \in 1..Len(s) |->
                IF i = 1 \/ ~IsAlpha(s[i - 1]) THEN UpperChar(s[i]) ELSE LowerChar(s[i])]

\* s.replace(old, new), old non-empty
RECURSIVE Replace(_, _, _)
Replace(s, old, new) ==
    IF s = <<>> THEN <<>>
    ELSE IF MatchAt(s, old, 1) THEN new \o Replace(SubSeq(s, Len(old) + 1, Len(s)), old, new)
    ELSE <<Head(s)>> \o Replace(Tail(s), old, new)

Range(f) == {f[i] : i \in DOMAIN f}

(***************************************************************************)
(* clean_code_for_prompt (src/ccChatWindow.py:44-126)                      *)
(***************************************************************************)
DQ3 == <<"\"", "\"", "\"">>
SQ3 == <<"'", "'", "'">>
Hash == <<"#">>
AssertKw == <<"a", "s", "s", "e", "r", "t", " ">>

\* lines 85-87: the test that a line opens a multi-line string
IsMultilineStart(stripped) ==
    \/ /\ StartsWith(stripped, DQ3) \/ StartsWith(stripped, SQ3)
       /\ ~EndsWith(stripped, SubSeq(stripped, 1, 3))
    \/ /\ Contains(stripped, DQ3)
       /\ ~EndsWith(stripped, DQ3)
       /\ Count(stripped, DQ3) % 2 # 0
    \/ /\ Contains(stripped, SQ3)
       /\ ~EndsWith(stripped, SQ3)
       /\ Count(stripped, SQ3) % 2 # 0

\* lines 64-72: does this line, read inside a multi-line string, close it?
ClosesMultiline(line, multiline_quote) ==
    /\ Contains(line, multiline_quote)
    /\ LET end_index == RIndex(line, multiline_quote)
       IN  ~(end_index > 1 /\ line[end_index - 1] = "\\")

\* lines 100-116: position of the first '#' outside a string, 0 when there is none
RECURSIVE CommentPos(_, _, _, _)
CommentPos(line, i, in_string, string_char) ==
    IF i > Len(line) THEN 0
    ELSE LET char == line[i]
             opens == char \in {"\"", "'"} /\ ~in_string
             closes == /\ char \in {"\"", "'"} /\ in_string
                       /\ char = string_char
                       /\ (i = 1 \/ line[i - 1] # "\\")
             in_string2 == IF opens THEN TRUE ELSE IF closes THEN FALSE ELSE in_string
             string_char2 == IF opens THEN char ELSE string_char
         IN  IF char = "#" /\ ~in_string2 THEN i
             ELSE CommentPos(line, i + 1, in_string2, string_char2)

\* lines 97-119: the line without its inline comment
RemoveInlineComment(line) ==
    IF Contains(line, Hash)
    THEN LET comment_pos == CommentPos(line, 1, FALSE, "")
         IN  IF comment_pos >= 1 THEN RStrip(SubSeq(line, 1, comment_pos - 1)) ELSE line
    ELSE line

\* lines 62-123: one iteration of the loop over the lines
CleanLine(st, line) ==
    IF st.in_multiline
    THEN [st EXCEPT !.in_multiline = ~ClosesMultiline(line, st.multiline_quote)]
    ELSE IF Strip(line) = <<>>
    THEN [st EXCEPT !.cleaned_lines = Append(@, <<>>)]
    ELSE IF StartsWith(Strip(line), Hash)
    THEN st
    ELSE IF IsMultilineStart(Strip(line))
    THEN [st EXCEPT !.in_multiline = TRUE,
                    !.multiline_quote = SubSeq(Strip(line), 1, 3)]
    ELSE IF StartsWith(Strip(line), AssertKw)
    THEN st
    ELSE LET code_part == RemoveInlineComment(line)
         IN  IF Strip(code_part) # <<>>
             THEN [st EXCEPT !.cleaned_lines = Append(@, code_part)]
             ELSE st

RECURSIVE CleanLines(_, _)
CleanLines(st, lines) ==
    IF lines = <<>> THEN st ELSE CleanLines(CleanLine(st, Head(lines)), Tail(lines))

clean_code_for_prompt(code) ==
    LET lines == SplitOn(code, "\n")
        final == CleanLines([in_multiline |-> FALSE, multiline_quote |-> <<>>,
                             cleaned_lines |-> <<>>], lines)
    IN  Join(final.cleaned_lines, <<"\n">>)

(***************************************************************************)
(* Specification SpecClean: clean_code_for_prompt applied to every source  *)
(* text of at most MaxCodeUnits units.  text_in is the list of units typed *)
(* so far; the code is their concatenation.                                *)
(***************************************************************************)
MaxCodeUnits == 6

CodeUnits == {DQ3, <<"\"">>, Hash, <<"a">>, <<"\n">>, AssertKw}

RECURSIVE Flatten(_)
Flatten(parts) == IF parts = <<>> THEN <<>> ELSE Head(parts) \o Flatten(Tail(parts))

NotCalled == [called |-> FALSE, value |-> <<>>]

Idle == [op |-> "none"]

\* the variables a specification does not use keep these values
GuiUnused ==
    /\ chat_history = <<>> /\ historyList = <<>> /\ current_chat_id = None
    /\ messagesLayout = <<>> /\ statusbar = "" /\ session_file = "missing"
    /\ now = 0 /\ running = FALSE
AiUnused == api_docs = <<>> /\ conversation_history = <<>> /\ last_request = <<>>
TextUnused == text_in = <<>> /\ text_out = NotCalled
ScanUnused == api_data = <<>> /\ output_file = <<>>

InitClean ==
    /\ text_in = <<>> /\ text_out = NotCalled
    /\ last_call = Idle
    /\ GuiUnused /\ AiUnused /\ ScanUnused

TypeCode(u) ==
    /\ Len(text_in) < MaxCodeUnits
    /\ text_in' = Append(text_in, u)
    /\ text_out' = NotCalled
    /\ UNCHANGED <<guiVars, aiVars, last_call, scanVars>>

CleanCode ==
    /\ ~text_out.called
    /\ text_out' = [called |-> TRUE, value |-> clean_code_for_prompt(Flatten(text_in))]
    /\ UNCHANGED <<text_in, guiVars, aiVars, last_call, scanVars>>

NextClean == (\E u \in CodeUnits : TypeCode(u)) \/ CleanCode

SpecClean == InitClean /\ [][NextClean]_vars

\* C8: clean_code_for_prompt is idempotent: cleaning its own output changes nothing.
C8_Idempotent ==
    text_out.called => clean_code_for_prompt(text_out.value) = text_out.value

\* The lines of the source that lie inside a triple-double-quoted string: an odd
\* number of """ precedes them and they hold none themselves.
RECURSIVE QuotesBefore(_, _)
QuotesBefore(lines, i) ==
    IF i <= 1 THEN 0 ELSE QuotesBefore(lines, i - 1) + Count(lines[i - 1], DQ3)

IsStringBodyLine(lines, i) ==
    /\ QuotesBefore(lines, i) % 2 = 1
    /\ ~Contains(lines[i], DQ3)
    /\ \E j \in (i + 1)..Len(lines) : Contains(lines[j], DQ3)

\* C9: every line of a multi-line (triple-quoted) string body is passed through to
\* the output verbatim.
C9_StringBodyVerbatim ==
    text_out.called =>
        LET lines == SplitOn(Flatten(text_in), "\n")
            out == SplitOn(text_out.value, "\n")
        IN  \A i \in 1..Len(lines) :
                IsStringBodyLine(lines, i) => \E k \in 1..Len(out) : out[k] = lines[i]

(***************************************************************************)
(* CloudCompareAI._load_api_docs and find_relevant_examples                *)
(* (src/ccChatWindow.py:163-172, 266-296)                                  *)
(*                                                                         *)
(* The knowledge-base document is a record: keys is the set of top-level   *)
(* keys present, workflows the ordered mapping under "workflows" as a list *)
(* of workflow records in the document's iteration order.                  *)
(***************************************************************************)
EmptyDocument == [keys |-> {}, workflows |-> <<>>]

\* lines 163-172: a missing file gives {}, otherwise the parsed document
_load_api_docs(exists, document) == IF ~exists THEN EmptyDocument ELSE document

NameWeight == 3
DescriptionWeight == 2
TriggerWeight == 2

\* a scoring that compares the word with the whole name instead of searching it
WordScoreNameEquals(workflow, word) ==
      (IF Lower(workflow.name) = word THEN NameWeight ELSE 0)
    + (IF Contains(Lower(workflow.description), word) THEN DescriptionWeight ELSE 0)
    + (IF \E trigger \in workflow.natural_language_triggers : Contains(Lower(trigger), word)
       THEN TriggerWeight ELSE 0)

\* lines 282-288: what one query word adds to a workflow's score
WordScore(workflow, word) ==
      (IF Contains(Lower(workflow.name), word) THEN NameWeight ELSE 0)
    + (IF Contains(Lower(workflow.description), word) THEN DescriptionWeight ELSE 0)
    + (IF \E trigger \in workflow.natural_language_triggers : Contains(Lower(trigger), word)
       THEN TriggerWeight ELSE 0)

\* lines 276-288: the score of a workflow for a set of query words
RECURSIVE Score(_, _)
Score(workflow, query_words) ==
    IF query_words = {} THEN 0
    ELSE LET word == CHOOSE w \in query_words : TRUE
         IN  WordScore(workflow, word) + Score(workflow, query_words \ {word})

\* line 273: set(query.lower().split())
QueryWords(query) == Range(SplitWords(Lower(query)))

\* line 290: only workflows with a positive score are kept
IsRelevant(score) == score > 0

\* lines 275-291: the (workflow, score) pairs, in the document's iteration order
RECURSIVE ScoreAll(_, _)
ScoreAll(workflows, query_words) ==
    IF workflows = <<>> THEN <<>>
    ELSE LET score == Score(Head(workflows), query_words)
             rest == ScoreAll(Tail(workflows), query_words)
         IN  IF IsRelevant(score)
             THEN <<[workflow |-> Head(workflows), score |-> score]>> \o rest
             ELSE rest

\* a sort that is not stable: an item goes before the items of equal score
RECURSIVE InsertByScoreUnstable(_, _)
InsertByScoreUnstable(sorted, item) ==
    IF sorted = <<>> THEN <<item>>
    ELSE IF Head(sorted).score > item.score
    THEN <<Head(sorted)>> \o InsertByScoreUnstable(Tail(sorted), item)
    ELSE <<item>> \o sorted

\* line 294: list.sort(key=score, reverse=True) is stable: an item goes after every
\* item whose score is at least its own
RECURSIVE InsertByScore(_, _)
InsertByScore(sorted, item) ==
    IF sorted = <<>> THEN <<item>>
    ELSE IF Head(sorted).score >= item.score
    THEN <<Head(sorted)>> \o InsertByScore(Tail(sorted), item)
    ELSE <<item>> \o sorted

RECURSIVE SortByScore(_)
SortByScore(items) ==
    IF items = <<>> THEN <<>>
    ELSE InsertByScore(SortByScore(SubSeq(items, 1, Len(items) - 1)), items[Len(items)])

\* line 296: relevant[:top_n], top_n >= 0
Take(seq, n) == SubSeq(seq, 1, IF n < Len(seq) THEN n ELSE Len(seq))

find_relevant_examples(docs, query, top_n) ==
    IF "workflows" \notin docs.keys \/ docs.workflows = <<>> THEN <<>>
    ELSE LET relevant == SortByScore(ScoreAll(docs.workflows, QueryWords(query)))
         IN  [i \in 1..Len(Take(relevant, top_n)) |-> relevant[i].workflow]

(***************************************************************************)
(* Specification SpecFind: a CloudCompareAI whose knowledge base is one of *)
(* KnowledgeBases (or absent); a query is typed character by character and *)
(* find_relevant_examples is called on it.                                 *)
(***************************************************************************)
MaxQueryLen == 3

QueryChars == {"a", "b", "A", " "}

\* the scripts behind the workflows are not read by the scoring
NoCode == <<>>

Workflow(key, name, description, triggers) ==
    [key |-> key, name |-> name, description |-> description,
     natural_language_triggers |-> triggers, code_example |-> NoCode]

\* a document as the scanner writes it: every workflow's triggers hold its
\* lower-cased name and the first line of its description
ScannedBase ==
    [keys |-> {"modules", "instance_methods", "example_scripts", "workflows", "metadata"},
     workflows |-> <<
        Workflow("ab.py", <<"A", "b">>, <<"b", " ", "a">>, {<<"a", "b">>, <<"b", " ", "a">>}),
        Workflow("b.py", <<"B">>, <<>>, {<<"b">>}),
        Workflow("a_b.py", <<"A", " ", "B">>, <<"A", "b">>, {<<"a", " ", "b">>, <<"a", "b">>}),
        Workflow("bb.py", <<"B", "b">>, <<"a">>, {<<"b", "b">>, <<"a">>}) >>]

\* a hand-written document: triggers are optional (workflow.get(..., []), line 287)
EditedBase ==
    [keys |-> {"workflows"},
     workflows |-> <<
        Workflow("one", <<"A", "a">>, <<"b">>, {}),
        Workflow("two", <<"a", "B">>, <<"a", "a">>, {<<"B", "A">>}),
        Workflow("three", <<"B", "a">>, <<>>, {}) >>]

NoWorkflowsBase == [keys |-> {"modules", "workflows", "metadata"}, workflows |-> <<>>]

KnowledgeBases == {ScannedBase, EditedBase, NoWorkflowsBase}

DefaultTopN == 5
TopNs == {1, 2, DefaultTopN}

NoFind == [query |-> <<>>, scores |-> <<>>]

InitFind ==
    /\ \E exists \in BOOLEAN : \E document \in KnowledgeBases :
          api_docs = _load_api_docs(exists, document)
    /\ conversation_history = <<>> /\ last_request = <<>>
    /\ text_in = <<>> /\ text_out = NotCalled
    /\ last_call = [op |-> "none", top_n |-> 0, scores |-> <<>>, prev |-> NoFind]
    /\ GuiUnused /\ ScanUnused

TypeQuery(c) ==
    /\ Len(text_in) < MaxQueryLen
    /\ text_in' = Append(text_in, c)
    /\ text_out' = NotCalled
    /\ UNCHANGED <<guiVars, aiVars, last_call, scanVars>>

\* the call find_relevant_examples(query, top_n); last_call keeps every workflow's
\* score in this call and in the call before it
FindRelevantExamples(top_n) ==
    /\ ~text_out.called
    /\ text_out' = [called |-> TRUE, value |-> find_relevant_examples(api_docs, text_in, top_n)]
    /\ last_call' =
          [op |-> "find", top_n |-> top_n,
           scores |-> [i \in 1..Len(api_docs.workflows) |->
                          Score(api_docs.workflows[i], QueryWords(text_in))],
           prev |-> IF last_call.op = "find"
                    THEN [query |-> last_call.query, scores |-> last_call.scores]
                    ELSE NoFind,
           query |-> text_in]
    /\ UNCHANGED <<text_in, guiVars, aiVars, scanVars>>

NextFind == (\E c \in QueryChars : TypeQuery(c)) \/ (\E n \in TopNs : FindRelevantExamples(n))

SpecFind == InitFind /\ [][NextFind]_vars

\* The last call's query is the previous call's query with the one word w added.
AddsWord(w) ==
    /\ last_call.op = "find"
    /\ Len(last_call.prev.scores) = Len(last_call.scores)
    /\ SplitWords(last_call.query) = SplitWords(last_call.prev.query) \o <<w>>

AddedWords == {w \in Range(SplitWords(text_in)) : AddsWord(w)}

NameHas(i, w) == Contains(Lower(api_docs.workflows[i].name), Lower(w))
DescriptionHas(i, w) == Contains(Lower(api_docs.workflows[i].description), Lower(w))
TriggersHave(i, w) ==
    \E t \in api_docs.workflows[i].natural_language_triggers : Contains(Lower(t), Lower(w))

\* C6 (as claimed): adding one query word that matches a workflow's name increases
\* that workflow's score by exactly 3.
C6_NameWordAddsExactlyThree ==
    \A w \in AddedWords : \A i \in 1..Len(last_call.scores) :
        NameHas(i, w) => last_call.scores[i] = last_call.prev.scores[i] + 3

\* C6 (amended): adding one query word that is not yet among the query's words and
\* matches a workflow's name increases that workflow's score by at least 3: by 3,
\* plus 2 when the word also occurs in the description, plus 2 when it occurs in a
\* trigger phrase.
C6_NameWordAddsAtLeastThree ==
    \A w \in AddedWords : \A i \in 1..Len(last_call.scores) :
        (NameHas(i, w) /\ Lower(w) \notin QueryWords(last_call.prev.query)) =>
            /\ last_call.scores[i] >= last_call.prev.scores[i] + 3
            /\ last_call.scores[i] = last_call.prev.scores[i] + 3
                    + (IF DescriptionHas(i, w) THEN 2 ELSE 0)
                    + (IF TriggersHave(i, w) THEN 2 ELSE 0)

\* a new word that matches a name only, and one that matches name and triggers
C6_Witness ==
    \E w \in AddedWords : \E i, j \in 1..Len(last_call.scores) :
        /\ Lower(w) \notin QueryWords(last_call.prev.query)
        /\ NameHas(i, w) /\ ~DescriptionHas(i, w) /\ ~TriggersHave(i, w)
        /\ NameHas(j, w) /\ DescriptionHas(j, w)

\* position of a returned workflow in the document's iteration order
DocIndex(workflow) ==
    CHOOSE i \in 1..Len(api_docs.workflows) : api_docs.workflows[i] = workflow

\* C7: find_relevant_examples returns at most top_n workflows, only workflows with
\* score > 0, by descending score, ties in the document's iteration order, and the
\* best ones; it returns nothing when the document is empty or has no workflows.
C7_TopNStableDescending ==
    (text_out.called /\ last_call.op = "find") =>
        LET result == text_out.value
            score(wf) == last_call.scores[DocIndex(wf)]
            positive == {i \in 1..Len(api_docs.workflows) : last_call.scores[i] > 0}
        IN  /\ Len(result) <= last_call.top_n
            /\ Len(result) = IF Cardinality(positive) < last_call.top_n
                             THEN Cardinality(positive) ELSE last_call.top_n
            /\ \A k \in 1..Len(result) :
                  /\ \E i \in positive : api_docs.workflows[i] = result[k]
                  /\ score(result[k]) > 0
            /\ \A k, l \in 1..Len(result) :
                  k < l => \/ score(result[k]) > score(result[l])
                           \/ /\ score(result[k]) = score(result[l])
                              /\ DocIndex(result[k]) < DocIndex(result[l])
            /\ \A i \in positive :
                  (\A k \in 1..Len(result) : result[k] # api_docs.workflows[i]) =>
                      \A k \in 1..Len(result) :
                          \/ score(result[k]) > last_call.scores[i]
                          \/ /\ score(result[k]) = last_call.scores[i]
                             /\ DocIndex(result[k]) < i
            /\ ("workflows" \notin api_docs.keys \/ api_docs.workflows = <<>>)
                  => result = <<>>

\* a tie returned in document order, with a scoring workflow cut off by top_n
C7_Witness ==
    /\ text_out.called /\ last_call.op = "find"
    /\ Len(text_out.value) = 2 /\ last_call.top_n = 2
    /\ Cardinality({i \in 1..Len(last_call.scores) : last_call.scores[i] > 0}) > 2
    /\ last_call.scores[DocIndex(text_out.value[1])]
          = last_call.scores[DocIndex(text_out.value[2])]

\* the absent knowledge-base file: an empty document, and an empty result
C7_WitnessAbsent ==
    /\ text_out.called /\ last_call.op = "find"
    /\ api_docs = EmptyDocument /\ text_in # <<>> /\ text_out.value = <<>>

(***************************************************************************)
(* CloudCompareAPIScan: example scripts and workflows                      *)
(* (src/ccAPIScanner.py:29-38, 263-347, 851-917)                           *)
(*                                                                         *)
(* Python's parser is not modelled: every example file carries, beside its *)
(* text, what ast.parse makes of that text (obtained from Python itself):  *)
(* whether it parses, the module docstring as ast.get_docstring returns    *)
(* it, and the call targets and imports in ast.walk order.                 *)
(***************************************************************************)
SyntaxError == [ok |-> FALSE, docstring |-> <<>>, has_docstring |-> FALSE,
                calls |-> <<>>, imports |-> <<>>]

MakeRampFile ==
    [name |-> <<"m", "a", "k", "e", "_", "r", "a", "m", "p", ".", "p", "y">>,
     path |-> "examples/make_ramp.py", readable |-> TRUE,
     text |-> <<"\"", "\"", "\"", "C", "r", "e", "a", "t", "e", "s", " ", "a", " ", "r", "a", "m", "p", ".", " ", "\n", "s", "h", "o", "w", " ", "i", "t", "\"", "\"", "\"", "\n", "f", "(", ")", "\n", "g", ".", "h", "(", ")", "\n", "f", "(", ")">>,
     ast |-> [ok |-> TRUE, docstring |-> <<"C", "r", "e", "a", "t", "e", "s", " ", "a", " ", "r", "a", "m", "p", ".", " ", "\n", "s", "h", "o", "w", " ", "i", "t">>, has_docstring |-> TRUE, calls |-> <<"f", "g.h", "f">>, imports |-> <<>>]]

TestFooFile ==
    [name |-> <<"t", "e", "s", "t", "_", "f", "o", "o", ".", "p", "y">>,
     path |-> "tests/test_foo.py", readable |-> TRUE,
     text |-> <<"\"", "\"", "\"", "C", "o", "m", "p", "u", "t", "e", " ", "x", "\"", "\"", "\"", "\n", "f", "(", ")">>,
     ast |-> [ok |-> TRUE, docstring |-> <<"C", "o", "m", "p", "u", "t", "e", " ", "x">>, has_docstring |-> TRUE, calls |-> <<"f">>, imports |-> <<>>]]

BrokenFile ==
    [name |-> <<"b", "a", "d", ".", "p", "y">>,
     path |-> "examples/bad.py", readable |-> TRUE,
     text |-> <<"\"", "\"", "\"", "S", "h", "o", "w", " ", " ", "a", "_", "1", " ", "b", "\"", "\"", "\"", "\n", "f", "(">>,
     ast |-> SyntaxError]

BrokenPlainFile ==
    [name |-> <<"b", ".", "p", "y">>,
     path |-> "examples/b.py", readable |-> TRUE,
     text |-> <<"f", "(">>,
     ast |-> SyntaxError]

NoDocFile ==
    [name |-> <<"T", "e", "s", "t", "_", "A", ".", "p", "y">>,
     path |-> "examples/Test_A.py", readable |-> TRUE,
     text |-> <<"f", "(", "g", "(", ")", ")">>,
     ast |-> [ok |-> TRUE, docstring |-> <<>>, has_docstring |-> FALSE, calls |-> <<"f", "g">>, imports |-> <<>>]]

OtherRampFile ==
    [name |-> <<"m", "a", "k", "e", "_", "r", "a", "m", "p", ".", "p", "y">>,
     path |-> "tests/make_ramp.py", readable |-> TRUE,
     text |-> <<"g", "(", ")">>,
     ast |-> [ok |-> TRUE, docstring |-> <<>>, has_docstring |-> FALSE, calls |-> <<"g">>, imports |-> <<>>]]

UnreadableFile ==
    [name |-> <<"x", ".", "p", "y">>,
     path |-> "examples/x.py", readable |-> FALSE,
     text |-> <<>>,
     ast |-> [ok |-> TRUE, docstring |-> <<>>, has_docstring |-> FALSE, calls |-> <<>>, imports |-> <<>>]]

BrokenTestFile ==
    [name |-> <<"t", "e", "s", "t", "_", "b", ".", "p", "y">>,
     path |-> "tests/test_b.py", readable |-> TRUE,
     text |-> <<"\"", "\"", "\"", "x", "\"", "\"", "\"", "\n", "g", "(">>,
     ast |-> SyntaxError]

\* calls with equal counts, more than TopCalls targets, one call nested in
\* another (ast.walk yields it last)
ManyCallsFile ==
    [name |-> <<"m", "a", "n", "y", ".", "p", "y">>,
     path |-> "examples/many.py", readable |-> TRUE,
     text |-> <<"a", "(", ")", "\n", "b", ".", "c", "(", ")", "\n", "d", "(", ")", "\n", "b", ".", "c", "(", ")", "\n", "e", "(", "f", "(", ")", ")", "\n", "g", "(", ")", "\n", "h", "(", ")", "\n", "h", "(", ")", "\n", "e", "(", ")", "\n", "h", "(", ")", "\n">>,
     ast |-> [ok |-> TRUE, docstring |-> <<>>, has_docstring |-> FALSE, calls |-> <<"a", "b.c", "d", "b.c", "e", "g", "h", "h", "e", "h", "f">>, imports |-> <<>>]]

ExampleFiles == {MakeRampFile, TestFooFile, BrokenFile, BrokenPlainFile, NoDocFile,
                 OtherRampFile, UnreadableFile, BrokenTestFile, ManyCallsFile}

\* ast.parse(content): a function of the text
ParseOracle(content) == (CHOOSE f \in ExampleFiles : f.text = content).ast

(***************************************************************************)
(* Ordered mappings (Python dicts keep insertion order): lists of entries  *)
(* with a key field.                                                       *)
(***************************************************************************)
DictHas(d, k) == \E i \in 1..Len(d) : d[i].key = k
DictIndex(d, k) == CHOOSE i \in 1..Len(d) : d[i].key = k
DictGet(d, k) == d[DictIndex(d, k)]
\* d[k] = entry: in place when the key exists, appended otherwise
DictSet(d, entry) ==
    IF DictHas(d, entry.key) THEN [d EXCEPT ![DictIndex(d, entry.key)] = entry]
    ELSE Append(d, entry)
\* del d[k]
DictDel(d, k) ==
    LET i == DictIndex(d, k) IN SubSeq(d, 1, i - 1) \o SubSeq(d, i + 1, Len(d))
DictKeys(d) == {d[i].key : i \in 1..Len(d)}

\* a dict with names as keys, as a function from those names: {}
EmptyDict == <<>>

\* d[k] = v
SetKey(d, k, v) == (k :> v) @@ d

\* lines 29-38: the document after __init__
InitialApiData ==
    [modules |-> EmptyDict, instance_methods |-> EmptyDict,
     example_scripts |-> <<>>, workflows |-> <<>>,
     metadata |-> [scan_date |-> <<>>, version |-> <<"1", ".", "0">>]]

\* lines 326-347: call target -> number of calls, in first-encounter order;
\* {} when the text does not parse
RECURSIVE CountCalls(_, _)
CountCalls(function_calls, calls) ==
    IF calls = <<>> THEN function_calls
    ELSE LET func_name == Head(calls)
             n == IF DictHas(function_calls, func_name)
                  THEN DictGet(function_calls, func_name).count ELSE 0
         IN  CountCalls(DictSet(function_calls, [key |-> func_name, count |-> n + 1]),
                        Tail(calls))

_extract_function_calls(code) ==
    IF ParseOracle(code).ok THEN CountCalls(<<>>, ParseOracle(code).calls) ELSE <<>>

\* lines 306-324
_extract_imports(code) == IF ParseOracle(code).ok THEN ParseOracle(code).imports ELSE <<>>

\* lines 289-304: one example file; a file that cannot be read is skipped
ScanExampleFile(example_scripts, file) ==
    IF ~file.readable THEN example_scripts
    ELSE DictSet(example_scripts,
                 [key |-> file.name, path |-> file.path, content |-> file.text,
                  imports |-> _extract_imports(file.text),
                  function_calls |-> _extract_function_calls(file.text)])

RECURSIVE _scan_example_scripts(_, _)
_scan_example_scripts(example_scripts, example_files) ==
    IF example_files = <<>> THEN example_scripts
    ELSE _scan_example_scripts(ScanExampleFile(example_scripts, Head(example_files)),
                               Tail(example_files))

DotPy == <<".", "p", "y">>
TestPrefix == <<"t", "e", "s", "t", "_">>

\* a test that ignores the case of the prefix
IsTestFileAnyCase(example_name) == StartsWith(Lower(example_name), TestPrefix)

\* line 859
IsTestFile(example_name) == StartsWith(example_name, TestPrefix)

\* line 871: re.search(r'^"""(.+?)"""', content, re.DOTALL): the text between a
\* leading """ and the next """ that leaves at least one character between them
HasLeadingDocstring(content) ==
    /\ StartsWith(content, DQ3)
    /\ \E e \in 5..Len(content) : MatchAt(content, DQ3, e)

LeadingDocstring(content) ==
    LET e == CHOOSE i \in 5..Len(content) :
                 MatchAt(content, DQ3, i) /\ \A j \in 5..(i - 1) : ~MatchAt(content, DQ3, j)
    IN  SubSeq(content, 4, e - 1)

\* a description taken from the parsed module only
DescriptionOfParsedOnly(content) ==
    IF ParseOracle(content).ok THEN ParseOracle(content).docstring ELSE <<>>

\* lines 865-873
DescriptionOf(content) ==
    IF ParseOracle(content).ok
    THEN ParseOracle(content).docstring
    ELSE IF HasLeadingDocstring(content) THEN Strip(LeadingDocstring(content)) ELSE <<>>

\* lines 876, 881
StripName(example_name) == Replace(Replace(example_name, DotPy, <<>>), <<"_">>, <<" ">>)
WorkflowName(example_name) == Title(StripName(example_name))

\* lines 890-891
action_verbs ==
    << <<"c", "o", "m", "p", "u", "t", "e">>, <<"c", "a", "l", "c", "u", "l", "a", "t", "e">>,
       <<"c", "r", "e", "a", "t", "e">>, <<"g", "e", "n", "e", "r", "a", "t", "e">>,
       <<"s", "h", "o", "w">>, <<"d", "i", "s", "p", "l", "a", "y">>,
       <<"a", "n", "a", "l", "y", "z", "e">>, <<"p", "r", "o", "c", "e", "s", "s">>,
       <<"c", "o", "n", "v", "e", "r", "t">>, <<"t", "r", "a", "n", "s", "f", "o", "r", "m">>,
       <<"e", "x", "t", "r", "a", "c", "t">> >>

Digits == {"0", "1", "2", "3", "4", "5", "6", "7", "8", "9"}

\* \w
IsWordChar(c) == IsAlpha(c) \/ c \in Digits \/ c = "_"

\* \s+ and \w+: length of the run of whitespace (word characters) starting at i
RECURSIVE SpaceRun(_, _)
SpaceRun(s, i) == IF i <= Len(s) /\ IsSpace(s[i]) THEN 1 + SpaceRun(s, i + 1) ELSE 0

RECURSIVE WordRun(_, _)
WordRun(s, i) == IF i <= Len(s) /\ IsWordChar(s[i]) THEN 1 + WordRun(s, i + 1) ELSE 0

\* line 896: re.findall(r'verb\s+(\w+)', text): the words that follow the verb,
\* matches found left to right without overlap
RECURSIVE VerbObjects(_, _, _)
VerbObjects(text, verb, i) ==
    IF i + Len(verb) - 1 > Len(text) THEN <<>>
    ELSE LET s == i + Len(verb)
             spaces == SpaceRun(text, s)
             word == WordRun(text, s + spaces)
         IN  IF MatchAt(text, verb, i) /\ spaces >= 1 /\ word >= 1
             THEN <<SubSeq(text, s + spaces, s + spaces + word - 1)>>
                  \o VerbObjects(text, verb, s + spaces + word)
             ELSE VerbObjects(text, verb, i + 1)

\* lines 893-898: the "verb object" phrases of a description
VerbPhrases(description) ==
    UNION {{action_verbs[v] \o <<" ">> \o obj :
               obj \in Range(VerbObjects(Lower(description), action_verbs[v], 1))} :
           v \in {v \in 1..Len(action_verbs) : Contains(Lower(description), action_verbs[v])}}

\* lines 879-898, 911: the set of trigger phrases
Triggers(example_name, description) ==
    {Lower(WorkflowName(example_name)), Lower(StripName(example_name))}
    \cup (IF description # <<>>
          THEN {Lower(Strip(SplitOn(description, "\n")[1]))} \cup VerbPhrases(description)
          ELSE {})

TopCalls == 5

\* an insertion that puts an item before the items of equal count
RECURSIVE InsertByCountBeforeEqual(_, _)
InsertByCountBeforeEqual(sorted, item) ==
    IF sorted = <<>> THEN <<item>>
    ELSE IF Head(sorted).count > item.count
    THEN <<Head(sorted)>> \o InsertByCountBeforeEqual(Tail(sorted), item)
    ELSE <<item>> \o sorted

\* line 904: sorted(function_calls.items(), key=count, reverse=True), stable
RECURSIVE InsertByCount(_, _)
InsertByCount(sorted, item) ==
    IF sorted = <<>> THEN <<item>>
    ELSE IF Head(sorted).count >= item.count
    THEN <<Head(sorted)>> \o InsertByCount(Tail(sorted), item)
    ELSE <<item>> \o sorted

RECURSIVE SortByCount(_)
SortByCount(items) ==
    IF items = <<>> THEN <<>>
    ELSE InsertByCount(SortByCount(SubSeq(items, 1, Len(items) - 1)), items[Len(items)])

\* lines 901-906
KeyFunctions(function_calls) ==
    LET sorted_calls == Take(SortByCount(function_calls), TopCalls)
    IN  [i \in 1..Len(sorted_calls) |-> sorted_calls[i].key]

\* lines 862-915: the workflow of one example record
WorkflowOf(example) ==
    [key |-> example.key,
     name |-> WorkflowName(example.key),
     description |-> DescriptionOf(example.content),
     natural_language_triggers |-> Triggers(example.key, DescriptionOf(example.content)),
     code_example |-> example.content,
     source |-> example.path,
     key_functions |-> KeyFunctions(example.function_calls)]

\* lines 857-917
RECURSIVE _extract_workflows(_, _)
_extract_workflows(workflows, example_scripts) ==
    IF example_scripts = <<>> THEN workflows
    ELSE LET example == Head(example_scripts)
         IN  _extract_workflows(IF IsTestFile(example.key) THEN workflows
                                ELSE DictSet(workflows, WorkflowOf(example)),
                                Tail(example_scripts))

(***************************************************************************)
(* Specification SpecScan: a scanner is constructed, _scan_example_scripts *)
(* reads the example files the directories hold (at most MaxExampleFiles,  *)
(* in the order glob lists them), then _extract_workflows runs.            *)
(***************************************************************************)
MaxExampleFiles == 3

\* the lists of distinct files of a given length
RECURSIVE FileLists(_)
FileLists(n) ==
    IF n = 0 THEN {<<>>}
    ELSE {Append(l, f) : l \in FileLists(n - 1), f \in ExampleFiles}

Distinct(l) == \A i, j \in 1..Len(l) : i # j => l[i] # l[j]

Directories == UNION {{l \in FileLists(n) : Distinct(l)} : n \in 0..MaxExampleFiles}

InitScan ==
    /\ api_data = InitialApiData
    /\ output_file = <<>>
    /\ last_call = [op |-> "none"]
    /\ GuiUnused /\ AiUnused /\ TextUnused

ScanExampleScripts(example_files) ==
    /\ last_call.op = "none"
    /\ api_data' = [api_data EXCEPT
                       !.example_scripts = _scan_example_scripts(@, example_files)]
    /\ last_call' = [op |-> "_scan_example_scripts", example_files |-> example_files]
    /\ UNCHANGED <<guiVars, aiVars, textVars, output_file>>

ExtractWorkflows ==
    /\ last_call.op = "_scan_example_scripts"
    /\ api_data' = [api_data EXCEPT
                       !.workflows = _extract_workflows(@, api_data.example_scripts)]
    /\ last_call' = [last_call EXCEPT !.op = "_extract_workflows"]
    /\ UNCHANGED <<guiVars, aiVars, textVars, output_file>>

NextScan == (\E l \in Directories : ScanExampleScripts(l)) \/ ExtractWorkflows

SpecScan == InitScan /\ [][NextScan]_vars

\* the file name without its .py extension, lower-cased, underscores as spaces
PlainName(example_name) ==
    [i \in 1..(Len(example_name) - 3) |->
        IF example_name[i] = "_" THEN " " ELSE LowerChar(example_name[i])]

\* the name starts with test_
NamedAsTest(example_name) ==
    /\ Len(example_name) >= 5
    /\ \A i \in 1..5 : example_name[i] = <<"t", "e", "s", "t", "_">>[i]

FirstLine(description) ==
    IF \E i \in 1..Len(description) : description[i] = "\n"
    THEN SubSeq(description, 1,
                (CHOOSE i \in 1..Len(description) :
                    description[i] = "\n" /\ \A j \in 1..(i - 1) : description[j] # "\n") - 1)
    ELSE description

IsRecorded(example_files, i) ==
    /\ example_files[i].readable
    /\ \A j \in (i + 1)..Len(example_files) :
          example_files[j].readable => example_files[j].name # example_files[i].name

\* the scanned files that were read and do not parse
UnparsedFiles ==
    {last_call.example_files[i] : i \in
        {i \in 1..Len(last_call.example_files) :
            IsRecorded(last_call.example_files, i) /\ ~last_call.example_files[i].ast.ok}}

\* the text between three double quotes that open the text and the next three
\* that leave a character between, without the white space around it
QuotedLead(text) ==
    LET closings == {e \in 5..Len(text) : MatchAt(text, DQ3, e)}
    IN  IF StartsWith(text, DQ3) /\ closings # {}
        THEN Strip(SubSeq(text, 4, (CHOOSE e \in closings : \A c \in closings : e <= c) - 1))
        ELSE <<>>

\* C11 as stated: after _extract_workflows, every example file that was read
\* and does not parse has an example record and a workflow, and that workflow
\* has an empty description, no trigger but the lower-cased name without
\* extension and underscores, and no key_functions.
C11_UnparsedGivesBareWorkflow ==
    last_call.op = "_extract_workflows" =>
        \A f \in UnparsedFiles :
            /\ \E e \in 1..Len(api_data.example_scripts) :
                  api_data.example_scripts[e].key = f.name
            /\ \E w \in 1..Len(api_data.workflows) :
                  /\ api_data.workflows[w].key = f.name
                  /\ api_data.workflows[w].description = <<>>
                  /\ api_data.workflows[w].natural_language_triggers = {PlainName(f.name)}
                  /\ api_data.workflows[w].key_functions = <<>>

\* C11, amended: after _extract_workflows, every example file that was read
\* and does not parse has an example record with no imports and no
\* function_calls; when its name does not start with test_ it has a workflow
\* without key_functions whose description is the stripped text of a
\* triple-double-quoted string that opens the file, or empty when there is
\* none; with an empty description the triggers are the name variant only,
\* otherwise they also hold the lower-cased first line of the description;
\* a file named test_ has no workflow.
C11_UnparsedGivesQuotedLeadWorkflow ==
    last_call.op = "_extract_workflows" =>
        \A f \in UnparsedFiles :
            /\ \E e \in 1..Len(api_data.example_scripts) :
                  /\ api_data.example_scripts[e].key = f.name
                  /\ api_data.example_scripts[e].content = f.text
                  /\ api_data.example_scripts[e].imports = <<>>
                  /\ api_data.example_scripts[e].function_calls = <<>>
            /\ NamedAsTest(f.name) =>
                  \A w \in 1..Len(api_data.workflows) : api_data.workflows[w].key # f.name
            /\ ~NamedAsTest(f.name) =>
                  \E w \in 1..Len(api_data.workflows) :
                     LET workflow == api_data.workflows[w]
                     IN  /\ workflow.key = f.name
                         /\ workflow.key_functions = <<>>
                         /\ workflow.description = QuotedLead(f.text)
                         /\ PlainName(f.name) \in workflow.natural_language_triggers
                         /\ workflow.description = <<>> =>
                               workflow.natural_language_triggers = {PlainName(f.name)}
                         /\ workflow.description # <<>> =>
                               Lower(Strip(FirstLine(workflow.description)))
                                   \in workflow.natural_language_triggers

\* bad.py, whose text opens with """Show  a_1 b""" and does not parse, beside
\* b.py, which has no such string, and test_b.py
C11_Witness ==
    /\ last_call.op = "_extract_workflows"
    /\ {BrokenFile, BrokenPlainFile, BrokenTestFile} \subseteq UnparsedFiles
    /\ \E w \in 1..Len(api_data.workflows) :
          /\ api_data.workflows[w].key = BrokenFile.name
          /\ api_data.workflows[w].description
                = <<"S", "h", "o", "w", " ", " ", "a", "_", "1", " ", "b">>
          /\ <<"s", "h", "o", "w", " ", "a", "_", "1">>
                \in api_data.workflows[w].natural_language_triggers
    /\ \E w \in 1..Len(api_data.workflows) :
          /\ api_data.workflows[w].key = BrokenPlainFile.name
          /\ api_data.workflows[w].natural_language_triggers = {<<"b">>}

(***************************************************************************)
(* CloudCompareAI.query and CloudCompareAI.execute_code                     *)
(* (src/ccChatWindow.py, lines 298-393).  The language-model request and    *)
(* the interpreter are the environment: a request either returns the        *)
(* reply's text or raises an Exception whose str() is given; exec either    *)
(* finishes or raises an Exception of some type with some message.          *)
(***************************************************************************)
\* the grave accent, which a TLA+ string cannot hold
Backtick == "grave"

\* generate_system_prompt(), lines 174-264: a fixed text
SystemPrompt ==
    <<"You are an AI assistant specialized in the CloudCompare 3D point cloud and mesh processing software. [...]">>

Entry(role, content) == [role |-> role, content |-> content]

DigitChars == <<"0", "1", "2", "3", "4", "5", "6", "7", "8", "9">>

\* str(n) of a natural number
RECURSIVE Decimal(_)
Decimal(n) ==
    IF n < 10 THEN <<DigitChars[n + 1]>>
    ELSE Decimal(n \div 10) \o <<DigitChars[(n % 10) + 1]>>

\* line 323
ExamplesIntro ==
    <<"\n", "\n", "H", "e", "r", "e", " ", "a", "r", "e", " ", "s", "o", "m", "e", " ", "r",
      "e", "l", "e", "v", "a", "n", "t", " ", "C", "l", "o", "u", "d", "C", "o", "m", "p", "a",
      "r", "e", " ", "w", "o", "r", "k", "f", "l", "o", "w", "s", " ", "t", "h", "a", "t", " ",
      "m", "i", "g", "h", "t", " ", "h", "e", "l", "p", ":", "\n", "\n">>

\* line 325
ExampleLabel ==
    <<"E", "x", "a", "m", "p", "l", "e", " ">>

\* line 327
OpenPythonFence ==
    <<Backtick, Backtick, Backtick, "p", "y", "t", "h", "o", "n", "\n">>

\* line 340
CloseFence ==
    <<"\n", Backtick, Backtick, Backtick, "\n", "\n">>

\* lines 325-340, one turn of the loop; i is enumerate's index plus one
ExampleText(example, i) ==
    ExampleLabel \o Decimal(i) \o <<":", " ">> \o example.name \o <<"\n">>
        \o example.description \o <<"\n">>
        \o OpenPythonFence \o clean_code_for_prompt(example.code_example) \o CloseFence

RECURSIVE ExamplesText(_, _)
ExamplesText(relevant_examples, i) ==
    IF i > Len(relevant_examples) THEN <<>>
    ELSE ExampleText(relevant_examples[i], i) \o ExamplesText(relevant_examples, i + 1)

\* lines 320-340: the content of the current user turn
ContentOf(user_input, relevant_examples) ==
    IF relevant_examples = <<>> THEN user_input
    ELSE user_input \o ExamplesIntro \o ExamplesText(relevant_examples, 1)

HistoryWindow == 5

\* seq[-n:]
LastN(seq, n) == IF Len(seq) <= n THEN seq ELSE SubSeq(seq, Len(seq) - n + 1, Len(seq))

\* the messages array with the window cut from the history as it is, the
\* current user entry included
MessagesOfWholeHistory(history, docs, user_input, include_history) ==
    <<Entry("system", SystemPrompt)>>
        \o (IF include_history /\ Len(history) > 2 THEN LastN(history, HistoryWindow)
            ELSE <<>>)
        \o <<Entry("user", ContentOf(user_input,
                                     find_relevant_examples(docs, user_input, DefaultTopN)))>>

\* lines 309-342; history already ends with the current user entry
MessagesOf(history, docs, user_input, include_history) ==
    <<Entry("system", SystemPrompt)>>
        \o (IF include_history /\ Len(history) > 2
            THEN LastN(SubSeq(history, 1, Len(history) - 1), HistoryWindow)
            ELSE <<>>)
        \o <<Entry("user", ContentOf(user_input,
                                     find_relevant_examples(docs, user_input, DefaultTopN)))>>

\* line 371
ErrorQueryingPrefix ==
    <<"E", "r", "r", "o", "r", " ", "q", "u", "e", "r", "y", "i", "n", "g", " ", "L", "L", "M",
      ":", " ">>

RequestOk(content) == [ok |-> TRUE, content |-> content]
RequestRaises(message) == [ok |-> FALSE, content |-> message]

\* lines 363 and 371: the text query returns for a request's outcome
ResponseText(outcome) ==
    IF outcome.ok THEN outcome.content ELSE ErrorQueryingPrefix \o outcome.content

\* a query whose failed request escapes: no assistant entry, no returned text
queryPropagating(history, docs, user_input, include_history, outcome) ==
    LET with_user == Append(history, Entry("user", user_input))
    IN  [conversation_history |->
            IF outcome.ok THEN Append(with_user, Entry("assistant", outcome.content))
            ELSE with_user,
         messages |-> MessagesOf(with_user, docs, user_input, include_history),
         result |-> IF outcome.ok THEN outcome.content ELSE <<>>,
         raised |-> ~outcome.ok]

\* a query that leaves the turn of a failed request without an assistant entry
queryDroppingFailedReply(history, docs, user_input, include_history, outcome) ==
    LET with_user == Append(history, Entry("user", user_input))
        result == ResponseText(outcome)
    IN  [conversation_history |->
            IF outcome.ok THEN Append(with_user, Entry("assistant", result)) ELSE with_user,
         messages |-> MessagesOf(with_user, docs, user_input, include_history),
         result |-> result,
         raised |-> FALSE]

\* query(user_input, include_history), lines 298-377: the history after the
\* call, the messages array of the request, the returned text, and whether
\* an exception left the method
query(history, docs, user_input, include_history, outcome) ==
    LET with_user == Append(history, Entry("user", user_input))
        result == ResponseText(outcome)
    IN  [conversation_history |-> Append(with_user, Entry("assistant", result)),
         messages |-> MessagesOf(with_user, docs, user_input, include_history),
         result |-> result,
         raised |-> FALSE]

\* line 388
ExecutedSuccessfully ==
    <<"C", "o", "d", "e", " ", "e", "x", "e", "c", "u", "t", "e", "d", " ", "s", "u", "c", "c",
      "e", "s", "s", "f", "u", "l", "l", "y", " ", "i", "n", " ", "C", "l", "o", "u", "d", "C",
      "o", "m", "p", "a", "r", "e", " ", "e", "n", "v", "i", "r", "o", "n", "m", "e", "n", "t">>

\* line 393
ErrorExecutingPrefix ==
    <<"E", "r", "r", "o", "r", " ", "e", "x", "e", "c", "u", "t", "i", "n", "g", " ", "c", "o",
      "d", "e", ":", " ">>

\* exception types: ValueError is derived from Exception, SystemExit (raised
\* by sys.exit() and exit()) only from BaseException
ValueError == <<"V", "a", "l", "u", "e", "E", "r", "r", "o", "r">>
SystemExit == <<"S", "y", "s", "t", "e", "m", "E", "x", "i", "t">>
IsException(type) == type # SystemExit

ExecOk == [raises |-> FALSE, type |-> <<>>, message |-> <<>>]
ExecRaises(type, message) == [raises |-> TRUE, type |-> type, message |-> message]

\* traceback.format_exc(), line 392; the frames are one token
TracebackOf(outcome) ==
    <<"Traceback (most recent call last):\n", "  File [...]\n">>
        \o outcome.type
        \o (IF outcome.message = <<>> THEN <<>> ELSE <<":", " ">> \o outcome.message)
        \o <<"\n">>

\* an execute_code that lets the exception of the executed code escape
execute_codePropagating(code, outcome) ==
    [result |-> IF outcome.raises THEN <<>> ELSE ExecutedSuccessfully,
     raised |-> outcome.raises]

\* execute_code(code), lines 379-393: "except Exception" lets through what
\* is not derived from Exception
execute_code(code, outcome) ==
    IF outcome.raises /\ ~IsException(outcome.type)
    THEN [result |-> <<>>, raised |-> TRUE]
    ELSE [result |-> IF outcome.raises
                     THEN ErrorExecutingPrefix \o outcome.message \o <<"\n", "\n">>
                              \o TracebackOf(outcome)
                     ELSE ExecutedSuccessfully,
          raised |-> FALSE]

(***************************************************************************)
(* Specification SpecAI: a CloudCompareAI object on its own.  query is      *)
(* called with and without include_history, the request succeeding or       *)
(* raising.                                                                *)
(***************************************************************************)
MaxTurns == 3

\* what the user types
Prompts == {<<"a", "b">>, <<"z", " ", "b">>}

\* replies of the language model: plain text, one fenced block
ReplyNoCode == <<"o", "k">>
ReplyOneBlock ==
    <<Backtick, Backtick, Backtick, "p", "y", "t", "h", "o", "n", "\n", "f", "(", ")", "\n", Backtick, Backtick, Backtick>>
\* str(e) of a failed request; an exception may carry no message
RequestErrors == {<<"t", "i", "m", "e", "o", "u", "t">>, <<>>}

RequestOutcomes(replies) ==
    {RequestOk(r) : r \in replies} \cup {RequestRaises(m) : m \in RequestErrors}

\* code handed to the interpreter
CallF == <<"f", "(", ")">>
CallG == <<"g", "(", ")">>

\* exec of nothing but white space cannot raise
ExecOutcomes(code) ==
    IF Strip(code) = <<>> THEN {ExecOk}
    ELSE {ExecOk, ExecRaises(ValueError, <<"b", "o", "o", "m">>)}

InitAI ==
    /\ \E exists \in BOOLEAN : api_docs = _load_api_docs(exists, ScannedBase)
    /\ conversation_history = <<>> /\ last_request = <<>>
    /\ last_call = Idle
    /\ GuiUnused /\ TextUnused /\ ScanUnused

Query(user_input, include_history, outcome) ==
    /\ Len(conversation_history) < 2 * MaxTurns
    /\ LET r == query(conversation_history, api_docs, user_input, include_history, outcome)
       IN  /\ conversation_history' = r.conversation_history
           /\ last_request' = r.messages
           /\ last_call' = [op |-> "query", user_input |-> user_input,
                            include_history |-> include_history, outcome |-> outcome,
                            result |-> r.result, raised |-> r.raised]
    /\ UNCHANGED <<guiVars, textVars, api_docs, scanVars>>

ExecuteCode(code, outcome) ==
    /\ LET r == execute_code(code, outcome)
       IN  last_call' = [op |-> "execute_code", code |-> code, outcome |-> outcome,
                         result |-> r.result, raised |-> r.raised]
    /\ UNCHANGED <<guiVars, textVars, aiVars, scanVars>>

NextAI ==
    \E user_input \in Prompts : \E include_history \in BOOLEAN :
       \E outcome \in RequestOutcomes({ReplyNoCode, ReplyOneBlock}) :
          Query(user_input, include_history, outcome)

SpecAI == InitAI /\ [][NextAI]_vars

Fence == <<Backtick, Backtick, Backtick>>
FencePython == Fence \o <<"p", "y", "t", "h", "o", "n">>

SetMax(S) == CHOOSE x \in S : \A y \in S : y <= x
SetMin(S) == CHOOSE x \in S : \A y \in S : x <= y

\* the group may end at e: \s+``` matches right after it
ClosesAfter(text, e) ==
    LET run == SpaceRun(text, e + 1)
    IN  run >= 1 /\ MatchAt(text, Fence, e + 1 + run)

\* ends of a group that starts at g (e = g - 1 is the empty group)
GroupEnds(text, g) == {e \in (g - 1)..Len(text) : ClosesAfter(text, e)}

\* one attempt of the pattern at position p: the first \s+ is greedy and
\* gives back one character at a time, the group is lazy
BlockAt(text, p) ==
    LET s  == p + Len(FencePython)
        ks == {k \in 1..SpaceRun(text, s) : GroupEnds(text, s + k) # {}}
    IN  IF ~MatchAt(text, FencePython, p) \/ ks = {}
        THEN [found |-> FALSE, group |-> <<>>, next |-> p + 1]
        ELSE LET g == s + SetMax(ks)
                 e == SetMin(GroupEnds(text, g))
             IN  [found |-> TRUE, group |-> SubSeq(text, g, e),
                  next |-> e + 1 + SpaceRun(text, e + 1) + Len(Fence)]

\* the groups of the non-overlapping matches, left to right
RECURSIVE FindAllFrom(_, _)
FindAllFrom(text, p) ==
    IF p > Len(text) THEN <<>>
    ELSE LET m == BlockAt(text, p)
         IN  (IF m.found THEN <<m.group>> ELSE <<>>) \o FindAllFrom(text, m.next)

FindAllPythonBlocks(response_text) == FindAllFrom(response_text, 1)

\* s[a:-b] of Python, for a, b > 0
Inner(s, a, b) == IF a + b >= Len(s) THEN <<>> ELSE SubSeq(s, a + 1, Len(s) - b)

Wrapped(s, quote) == StartsWith(s, quote) /\ EndsWith(s, quote)

ExecOpen == <<"e", "x", "e", "c", "(">>
EscapedNewline == <<"\\", "n">>
IndentWidth == 4

\* lines 695-696
UnwrapExec(code) ==
    IF StartsWith(code, ExecOpen) /\ EndsWith(code, <<")">>)
    THEN Strip(Inner(code, Len(ExecOpen), 1))
    ELSE code

\* lines 699-715
Unquote(code) ==
    IF Contains(code, EscapedNewline)
    THEN LET bare == IF Wrapped(code, <<"\"">>) \/ Wrapped(code, <<"'">>)
                     THEN Inner(code, 1, 1) ELSE code
         IN  Replace(Replace(Replace(bare, <<"\\", "\"">>, <<"\"">>),
                             <<"\\", "'">>, <<"'">>),
                     EscapedNewline, <<"\n">>)
    ELSE IF Wrapped(code, DQ3) \/ Wrapped(code, SQ3) THEN Inner(code, 3, 3)
    ELSE IF Wrapped(code, <<"\"">>) \/ Wrapped(code, <<"'">>) THEN Inner(code, 1, 1)
    ELSE code

\* lines 723-736; the white space counted is that of both ends of the line
FormatLine(line) ==
    LET stripped == Strip(line)
    IN  IF stripped = <<>> THEN <<>>
        ELSE IF Len(line) - Len(stripped) >= IndentWidth THEN line
        ELSE stripped

format_for_cloudcompare_exec(llm_code) ==
    LET lines == SplitOn(Unquote(UnwrapExec(llm_code)), "\n")
    IN  Join([i \in 1..Len(lines) |-> FormatLine(lines[i])], <<"\n">>)

(***************************************************************************)
(* ChatWindow (src/ccChatWindow.py, lines 500-871).  A window is the        *)
(* record of its chat_history (an ordered mapping of sessions), the items   *)
(* of its historyList, its current_chat_id and the message widgets of its   *)
(* messagesLayout.  Handlers are functions from windows to windows; t is    *)
(* the clock's reading, in seconds, during the handler.                     *)
(***************************************************************************)
\* f"chat_{now:%Y%m%d%H%M%S}", line 603: one id per second
ChatId(t) == "chat_" \o ToString(t)

SecondsPerMinute == 60

\* f"New Chat ({now:%H:%M})", lines 604-605: one title per minute
NewChatTitle(t) == <<"New Chat (", ToString(t \div SecondsPerMinute), ")">>

Session(chat_id, title, messages) == [key |-> chat_id, title |-> title, messages |-> messages]
Message(text, is_user, t) == [text |-> text, is_user |-> is_user, timestamp |-> t]
ChatHistoryItem(chat_id, title) == [chat_id |-> chat_id, title |-> title]
ChatMessage(text, is_user) == [text |-> text, is_user |-> is_user]

\* lines 562-563, before the first start_new_chat
EmptyWindow ==
    [chat_history |-> <<>>, historyList |-> <<>>, current_chat_id |-> None,
     messagesLayout |-> <<>>]

\* lines 831-840, up to the processEvents call
display_message(w, text, is_user) ==
    [w EXCEPT !.messagesLayout = Append(@, ChatMessage(text, is_user))]

\* lines 644-650
clear_messages(w) == [w EXCEPT !.messagesLayout = <<>>]

\* lines 631-642
switch_to_chat(w, chat_id) ==
    LET cleared == [clear_messages(w) EXCEPT !.current_chat_id = chat_id]
    IN  IF DictHas(w.chat_history, chat_id)
        THEN LET messages == DictGet(w.chat_history, chat_id).messages
             IN  [cleared EXCEPT !.messagesLayout =
                     [i \in 1..Len(messages) |->
                         ChatMessage(messages[i].text, messages[i].is_user)]]
        ELSE cleared

\* lines 619-629
add_chat_to_history(w, chat_id, title) ==
    [w EXCEPT !.historyList = Append(@, ChatHistoryItem(chat_id, title))]

\* lines 600-617
start_new_chat(w, t) ==
    LET chat_id == ChatId(t)
        title == NewChatTitle(t)
        created == [w EXCEPT !.chat_history = DictSet(@, Session(chat_id, title, <<>>))]
    IN  switch_to_chat(add_chat_to_history(created, chat_id, title), chat_id)

HasItem(items, chat_id) == \E i \in 1..Len(items) : items[i].chat_id = chat_id
FirstItem(items, chat_id) ==
    CHOOSE i \in 1..Len(items) :
        items[i].chat_id = chat_id /\ \A j \in 1..(i - 1) : items[j].chat_id # chat_id

\* lines 659-665: the first item of that id is taken out
TakeItem(items, chat_id) ==
    IF HasItem(items, chat_id)
    THEN LET i == FirstItem(items, chat_id)
         IN  SubSeq(items, 1, i - 1) \o SubSeq(items, i + 1, Len(items))
    ELSE items

\* lines 652-675
delete_chat(w, chat_id, t) ==
    LET removed == [w EXCEPT
                       !.chat_history = IF DictHas(@, chat_id) THEN DictDel(@, chat_id) ELSE @,
                       !.historyList = TakeItem(@, chat_id)]
    IN  IF chat_id # w.current_chat_id THEN removed
        ELSE IF removed.historyList # <<>>
             THEN switch_to_chat(removed, removed.historyList[1].chat_id)
             ELSE start_new_chat(removed, t)

\* lines 821-829
update_chat_title(w, chat_id, new_title) ==
    IF HasItem(w.historyList, chat_id)
    THEN [w EXCEPT !.historyList[FirstItem(w.historyList, chat_id)].title = new_title]
    ELSE w

(***************************************************************************)
(* QApplication.processEvents() inside display_message (line 836) runs the  *)
(* handler of a click that is waiting: the New Chat action, a click on the  *)
(* sidebar item at some position, or a click on that item's delete button.  *)
(* At most one click is taken per call.                                     *)
(***************************************************************************)
NoEvent == [kind |-> "none", position |-> 0]
NewChatEvent == [kind |-> "new", position |-> 0]
ItemEvent(kind, position) == [kind |-> kind, position |-> position]

ProcessEvents(w, event, t) ==
    IF event.kind = "new" THEN start_new_chat(w, t)
    ELSE IF event.kind \in {"switch", "delete"} /\ event.position <= Len(w.historyList)
    THEN LET chat_id == w.historyList[event.position].chat_id
         IN  IF event.kind = "switch" THEN switch_to_chat(w, chat_id)
             ELSE delete_chat(w, chat_id, t)
    ELSE w

(***************************************************************************)
(* The session file chat_history.json.  json.dump writes the mapping as an  *)
(* object whose members are the sessions, in order; json.load reads an      *)
(* object back into a mapping.                                              *)
(***************************************************************************)
\* the timestamp is written as text
JsonMessage(m) == [text |-> m.text, is_user |-> m.is_user, timestamp |-> ToString(m.timestamp)]

JsonDump(mapping) ==
    [i \in 1..Len(mapping) |->
        [name |-> mapping[i].key,
         value |-> [title |-> mapping[i].title,
                    messages |-> [j \in 1..Len(mapping[i].messages) |->
                                     JsonMessage(mapping[i].messages[j])]]]]

\* the clock's readings run from 0, the time of an earlier run, to MaxClock
MaxClock == 2

\* the reading of a decimal numeral of the clock
ClockOf(numeral) == CHOOSE t \in 0..MaxClock : ToString(t) = numeral

JsonLoad(document) ==
    [i \in 1..Len(document) |->
        Session(document[i].name, document[i].value.title,
                [j \in 1..Len(document[i].value.messages) |->
                    LET m == document[i].value.messages[j]
                    IN  Message(m.text, m.is_user, ClockOf(m.timestamp))])]

MissingFile == [state |-> "missing", document |-> <<>>]
CorruptFile == [state |-> "corrupt", document |-> <<>>]
SavedFile(mapping) == [state |-> "ok", document |-> JsonDump(mapping)]

\* lines 843-849; opening or writing may fail, and the exception is printed
save_chats(mapping, file, outcome) ==
    IF outcome = "ok" THEN SavedFile(mapping)
    ELSE IF outcome = "open fails" THEN file
    ELSE CorruptFile

SaveOutcomes == {"ok", "open fails", "write fails"}

\* a load_chats that takes a missing file for an empty mapping
load_chatsMissingAsEmpty(w, file) ==
    IF file.state = "corrupt" THEN w
    ELSE LET loaded == JsonLoad(file.document)
         IN  [w EXCEPT !.chat_history = loaded,
                       !.historyList = [i \in 1..Len(loaded) |->
                                           ChatHistoryItem(loaded[i].key, loaded[i].title)]]

\* lines 851-871
load_chats(w, file) ==
    IF file.state # "ok" THEN w
    ELSE LET loaded == JsonLoad(file.document)
             rebuilt == [w EXCEPT !.chat_history = loaded,
                                  !.historyList = [i \in 1..Len(loaded) |->
                                      ChatHistoryItem(loaded[i].key, loaded[i].title)]]
         IN  IF loaded # <<>> THEN switch_to_chat(rebuilt, loaded[1].key) ELSE rebuilt

(***************************************************************************)
(* send_message and handle_response (lines 743-799).  The outcome of a      *)
(* handler is the window, the status bar and the session file it leaves,    *)
(* the code it handed to exec, and whether an exception left it.            *)
(***************************************************************************)
TitleLength == 20

\* line 766
TitleOf(message_text) ==
    IF Len(message_text) > TitleLength
    THEN SubSeq(message_text, 1, TitleLength) \o <<".", ".", ".">>
    ELSE message_text

\* chat_history[current_chat_id]["messages"].append(message), and the title
\* taken from a first user message (lines 757-770)
RecordMessage(w, message) ==
    LET i == DictIndex(w.chat_history, w.current_chat_id)
        appended == [w EXCEPT !.chat_history[i].messages = Append(@, message)]
    IN  IF message.is_user /\ Len(appended.chat_history[i].messages) = 1
        THEN update_chat_title([appended EXCEPT !.chat_history[i].title = TitleOf(message.text)],
                               w.current_chat_id, TitleOf(message.text))
        ELSE appended

RecordIfCurrentExists(w, message) ==
    IF DictHas(w.chat_history, w.current_chat_id) THEN RecordMessage(w, message) ELSE w

\* the text handed to exec by handle_response, if any
CodeToExecute(response_text) ==
    LET code_blocks == FindAllPythonBlocks(response_text)
    IN  IF code_blocks = <<>> THEN <<>>
        ELSE <<format_for_cloudcompare_exec(code_blocks[1])>>

\* a handle_response that takes the last block of the reply
handle_responseLastBlock(w, status, file, response_text, t, event, exec_outcome, save_outcome) ==
    LET code_blocks == FindAllPythonBlocks(response_text)
    IN  IF code_blocks = <<>>
        THEN [window |-> w, statusbar |-> status, session_file |-> file,
              executed |-> <<>>, raised |-> FALSE]
        ELSE LET last_code_block == code_blocks[Len(code_blocks)]
                 shown == ProcessEvents(display_message(w, last_code_block, FALSE), event, t)
                 recorded == RecordIfCurrentExists(shown, Message(last_code_block, FALSE, t))
             IN  [window |-> recorded,
                  statusbar |-> IF exec_outcome.raises THEN "Resonse received..."
                                ELSE "Executed.",
                  session_file |-> IF exec_outcome.raises THEN file
                                   ELSE save_chats(recorded.chat_history, file, save_outcome),
                  executed |-> <<format_for_cloudcompare_exec(last_code_block)>>,
                  raised |-> exec_outcome.raises]

\* handle_response(response_text), lines 778-799
handle_response(w, status, file, response_text, t, event, exec_outcome, save_outcome) ==
    LET code_blocks == FindAllPythonBlocks(response_text)
    IN  IF code_blocks = <<>>
        THEN [window |-> w, statusbar |-> status, session_file |-> file,
              executed |-> <<>>, raised |-> FALSE]
        ELSE LET last_code_block == code_blocks[1]
                 shown == ProcessEvents(display_message(w, last_code_block, FALSE), event, t)
                 recorded == RecordIfCurrentExists(shown, Message(last_code_block, FALSE, t))
             IN  [window |-> recorded,
                  statusbar |-> IF exec_outcome.raises THEN "Resonse received..."
                                ELSE "Executed.",
                  session_file |-> IF exec_outcome.raises THEN file
                                   ELSE save_chats(recorded.chat_history, file, save_outcome),
                  executed |-> <<format_for_cloudcompare_exec(last_code_block)>>,
                  raised |-> exec_outcome.raises]

\* send_message(), lines 743-773, for a non-blank input; the handlers'
\* outcome together with the assistant's state after query
send_message(w, file, ai, message_text, t, events, request, exec_outcome, save_outcome) ==
    LET shown == ProcessEvents(display_message(w, message_text, TRUE), events[1], t)
        recorded == RecordIfCurrentExists(shown, Message(message_text, TRUE, t))
        answer == query(ai.conversation_history, ai.api_docs, message_text, FALSE, request)
    IN  handle_response(recorded, "Message sent to LLM...", file, answer.result,
                        t, events[2], exec_outcome, save_outcome)
            @@ [conversation_history |-> answer.conversation_history,
                messages |-> answer.messages, response_text |-> answer.result]

(***************************************************************************)
(* Specification Spec: the chat window run as a program (lines 873-885).    *)
(* The window has been constructed; the user starts, selects and deletes    *)
(* sessions, sends messages, and quits; load_chats is called; the clock     *)
(* advances.  The session file is missing, unreadable or left by an         *)
(* earlier run.                                                             *)
(***************************************************************************)
MaxSidebar == 2
MaxSends == 1

Window ==
    [chat_history |-> chat_history, historyList |-> historyList,
     current_chat_id |-> current_chat_id, messagesLayout |-> messagesLayout]

SetWindow(w) ==
    /\ chat_history' = w.chat_history
    /\ historyList' = w.historyList
    /\ current_chat_id' = w.current_chat_id
    /\ messagesLayout' = w.messagesLayout

WindowIs(w) ==
    /\ chat_history = w.chat_history
    /\ historyList = w.historyList
    /\ current_chat_id = w.current_chat_id
    /\ messagesLayout = w.messagesLayout

windowVars == <<chat_history, historyList, current_chat_id, messagesLayout>>

\* the sessions an earlier run left in the file
PriorRun ==
    <<Session(ChatId(0), <<"h", "i">>,
              <<Message(<<"h", "i">>, TRUE, 0), Message(CallF, FALSE, 0)>>)>>

InitialFiles == {MissingFile, CorruptFile, SavedFile(<<>>), SavedFile(PriorRun)}

\* what the user types into messageInput
ShortInput == <<" ", "h", "i", " ">>
LongInput ==
    <<"p", "l", "o", "t", " ", "t", "h", "e", " ", "h", "e", "i", "g", "h", "t", " ", "r", "a", "m", "p", "s", "\n">>
BlankInput == <<" ", "\n">>
Inputs == {ShortInput, LongInput, BlankInput}

Events == {NoEvent, NewChatEvent}
              \cup {ItemEvent(kind, 1) : kind \in {"switch", "delete"}}

\* one click at most waits during a send_message call
EventPairs == {<<e, NoEvent>> : e \in Events} \cup {<<NoEvent, e>> : e \in Events}

\* what the endpoint does with a request
Requests ==
    {RequestOk(r) : r \in {ReplyNoCode, ReplyOneBlock}}
        \cup {RequestRaises(m) : m \in RequestErrors \ {<<>>}}

Init ==
    /\ now = 1 /\ running = TRUE
    /\ WindowIs(start_new_chat(EmptyWindow, 1))
    /\ statusbar = "Ready"
    /\ session_file \in InitialFiles
    /\ api_docs = _load_api_docs(TRUE, NoWorkflowsBase)
    /\ conversation_history = <<>> /\ last_request = <<>>
    /\ last_call = Idle
    /\ TextUnused /\ ScanUnused

Tick ==
    /\ running /\ now < MaxClock
    /\ now' = now + 1
    /\ UNCHANGED <<windowVars, statusbar, session_file, running, last_call,
                   aiVars, textVars, scanVars>>

\* the New Chat button or menu action
StartNewChat ==
    /\ running /\ Len(historyList) < MaxSidebar
    /\ SetWindow(start_new_chat(Window, now))
    /\ last_call' = [op |-> "start_new_chat"]
    /\ UNCHANGED <<statusbar, session_file, now, running, aiVars, textVars, scanVars>>

\* a click on the sidebar item at a position
SwitchToChat(position) ==
    /\ running /\ position \in 1..Len(historyList)
    /\ SetWindow(switch_to_chat(Window, historyList[position].chat_id))
    /\ last_call' = [op |-> "switch_to_chat"]
    /\ UNCHANGED <<statusbar, session_file, now, running, aiVars, textVars, scanVars>>

\* a click on the delete button of the sidebar item at a position
DeleteChat(position) ==
    /\ running /\ position \in 1..Len(historyList)
    /\ SetWindow(delete_chat(Window, historyList[position].chat_id, now))
    /\ last_call' = [op |-> "delete_chat"]
    /\ UNCHANGED <<statusbar, session_file, now, running, aiVars, textVars, scanVars>>

\* the state a send_message call leaves, r being what the handlers returned
SendMessageReturns(r, request, exec_outcome, save_outcome) ==
    /\ SetWindow(r.window)
    /\ statusbar' = r.statusbar
    /\ session_file' = r.session_file
    /\ conversation_history' = r.conversation_history
    /\ last_request' = r.messages
    /\ UNCHANGED api_docs
    /\ last_call' = [op |-> "send_message", sent |-> TRUE,
                     request_ok |-> request.ok,
                     executed |-> r.executed,
                     exec_raised |-> r.executed # <<>> /\ exec_outcome.raises,
                     raised |-> r.raised,
                     save |-> IF r.executed # <<>> /\ ~r.raised
                              THEN save_outcome ELSE "not reached"]

\* the Send button, with the input's text; events are the clicks waiting at
\* the two display_message calls
SendMessage(input, events, request, exec_outcome, save_outcome) ==
    /\ running /\ Len(conversation_history) < 2 * MaxSends
    /\ exec_outcome \in ExecOutcomes(Flatten(CodeToExecute(ResponseText(request))))
    /\ save_outcome # "ok" => ~exec_outcome.raises /\ CodeToExecute(ResponseText(request)) # <<>>
    /\ IF Strip(input) = <<>>
       THEN /\ last_call' = [op |-> "send_message", sent |-> FALSE, request_ok |-> FALSE,
                             executed |-> <<>>, exec_raised |-> FALSE, raised |-> FALSE,
                             save |-> "not reached"]
            /\ UNCHANGED <<windowVars, statusbar, session_file, aiVars>>
       ELSE SendMessageReturns(
                send_message(Window, session_file,
                             [conversation_history |-> conversation_history,
                              api_docs |-> api_docs],
                             Strip(input), now, events, request, exec_outcome, save_outcome),
                request, exec_outcome, save_outcome)
    /\ UNCHANGED <<now, running, textVars, scanVars>>

\* window.load_chats(), line 881
LoadChats ==
    /\ running
    /\ SetWindow(load_chats(Window, session_file))
    /\ last_call' = [op |-> "load_chats", file |-> session_file.state, raised |-> FALSE]
    /\ UNCHANGED <<statusbar, session_file, now, running, aiVars, textVars, scanVars>>

\* aboutToQuit, line 884
Quit(save_outcome) ==
    /\ running
    /\ running' = FALSE
    /\ session_file' = save_chats(chat_history, session_file, save_outcome)
    /\ last_call' = [op |-> "quit", save |-> save_outcome]
    /\ UNCHANGED <<windowVars, statusbar, now, aiVars, textVars, scanVars>>

Next ==
    \/ Tick
    \/ StartNewChat
    \/ \E position \in 1..MaxSidebar : SwitchToChat(position)
    \/ \E position \in 1..MaxSidebar : DeleteChat(position)
    \/ \E input \in Inputs : \E events \in EventPairs :
          \E request \in Requests :
             \E exec_outcome \in ExecOutcomes(CallF) :
                \E save_outcome \in SaveOutcomes :
                   SendMessage(input, events, request, exec_outcome, save_outcome)
    \/ LoadChats
    \/ \E save_outcome \in SaveOutcomes : Quit(save_outcome)

Spec == Init /\ [][Next]_vars

\* the mapping a reader of the session file gets, if it gets one
FileHolds(file, mapping) == file.state = "ok" /\ JsonLoad(file.document) = mapping

\* C4: after every send_message call in which the endpoint returned a reply
\* without a request failure, the session file holds the mapping
\* chat_history, the user message just sent included (a write that the file
\* system refuses is left aside).
C4_SavedAfterEveryReply ==
    (/\ last_call.op = "send_message" /\ last_call.sent /\ last_call.request_ok
     /\ last_call.save \in {"ok", "not reached"})
        => FileHolds(session_file, chat_history)

\* C5: load_chats on a missing session file raises nothing and leaves
\* chat_history, the sidebar and current_chat_id as they were.
C5_MissingFileChangesNothing ==
    [][(last_call'.op = "load_chats" /\ last_call'.file = "missing")
          => /\ ~last_call'.raised
             /\ UNCHANGED <<chat_history, historyList, current_chat_id>>]_vars

\* load_chats found no file in a window with two sessions, one with messages
C5_Witness ==
    /\ last_call.op = "load_chats" /\ last_call.file = "missing"
    /\ Len(chat_history) = 2 /\ Len(historyList) = 2
    /\ \E i \in 1..Len(chat_history) : chat_history[i].messages # <<>>

(***************************************************************************)
(* Specification SpecExec: the two ways code gets executed, in a window     *)
(* just constructed: a message is sent and the reply's code executed by     *)
(* handle_response, and execute_code is called on a piece of code.          *)
(***************************************************************************)
InitExec ==
    /\ now = 1 /\ running = TRUE
    /\ WindowIs(start_new_chat(EmptyWindow, 1))
    /\ statusbar = "Ready"
    /\ session_file \in {MissingFile, SavedFile(PriorRun)}
    /\ api_docs = _load_api_docs(TRUE, NoWorkflowsBase)
    /\ conversation_history = <<>> /\ last_request = <<>>
    /\ last_call = Idle
    /\ TextUnused /\ ScanUnused

\* CC_AI.execute_code(code) of the window's assistant
ExecuteCodeInWindow(code, outcome) ==
    /\ running
    /\ outcome.raises => Strip(code) # <<>>
    /\ ExecuteCode(code, outcome)

NextExec ==
    \/ \E input \in Inputs : \E events \in EventPairs :
          \E request \in Requests :
             \E exec_outcome \in ExecOutcomes(CallF) :
                \E save_outcome \in SaveOutcomes :
                   SendMessage(input, events, request, exec_outcome, save_outcome)
    \/ \E code \in {<<>>, CallF} :
          \E outcome \in ExecOutcomes(code) \cup {ExecRaises(ValueError, <<>>),
                                                  ExecRaises(SystemExit, <<>>)} :
             ExecuteCodeInWindow(code, outcome)

SpecExec == InitExec /\ [][NextExec]_vars

\* what C3 says of execute_code, for the exceptions in a set of types: the
\* call returns "Error executing code: <message>", a blank line and the
\* traceback, and no exception leaves it
ExecuteCodeCatches(call) ==
    /\ ~call.raised
    /\ call.result = ErrorExecutingPrefix \o call.outcome.message \o <<"\n", "\n">>
                         \o TracebackOf(call.outcome)

\* what C3 says of send_message: the exception leaves handle_response and
\* send_message, the status bar keeps "Resonse received..." instead of
\* "Executed.", and the session file is not written
SendMessagePropagates ==
    (last_call'.op = "send_message" /\ last_call'.exec_raised)
        => /\ last_call'.raised
           /\ statusbar' = "Resonse received..."
           /\ session_file' = session_file

\* C3: execute_code catches every exception the executed code raises and
\* returns it as text, while in send_message the exception propagates and
\* neither the "Executed." status nor save_chats is reached.
C3_ExecutionPathsDifferOnFailure ==
    [][/\ (last_call'.op = "execute_code" /\ last_call'.outcome.raises)
          => ExecuteCodeCatches(last_call')
       /\ SendMessagePropagates]_vars

\* C3 (amended): execute_code catches the exceptions derived from Exception
\* and returns them as text; SystemExit and the other exceptions derived
\* from BaseException alone leave execute_code.  In send_message every
\* exception of the executed code propagates, and neither the "Executed."
\* status nor save_chats is reached.
C3_ExecutionPathsDifferOnErrors ==
    [][/\ (last_call'.op = "execute_code" /\ last_call'.outcome.raises)
          => IF IsException(last_call'.outcome.type)
             THEN ExecuteCodeCatches(last_call')
             ELSE last_call'.raised
       /\ SendMessagePropagates]_vars

\* the code of a reply raised inside send_message: the session holds the
\* exchange, the file of the earlier run does not
C3_Witness ==
    /\ last_call.op = "send_message" /\ last_call.exec_raised /\ last_call.raised
    /\ statusbar = "Resonse received..."
    /\ session_file = SavedFile(PriorRun)
    /\ \E i \in 1..Len(chat_history) : Len(chat_history[i].messages) = 2

(***************************************************************************)
(* Specification SpecReply: handle_response is called once, in a window     *)
(* just constructed, on a reply put together from fences, pieces of code    *)
(* and plain text.                                                          *)
(***************************************************************************)
MaxReplyPieces == 4

OpenF == FencePython \o <<"\n">> \o CallF
OpenG == FencePython \o <<"\n">> \o CallG
CloseBlock == <<"\n">> \o Fence

ReplyPieces == {OpenF, OpenG, CloseBlock, Fence, <<" ">>, <<"x">>}

InitReply ==
    /\ now = 1 /\ running = TRUE
    /\ WindowIs(start_new_chat(EmptyWindow, 1))
    /\ statusbar = "Message sent to LLM..."
    /\ session_file = MissingFile
    /\ api_docs = _load_api_docs(TRUE, NoWorkflowsBase)
    /\ conversation_history = <<>> /\ last_request = <<>>
    /\ text_in = <<>> /\ text_out = NotCalled
    /\ last_call = Idle
    /\ ScanUnused

ReceivePiece(piece) ==
    /\ last_call.op = "none" /\ Len(text_in) < MaxReplyPieces
    /\ text_in' = Append(text_in, piece)
    /\ UNCHANGED <<guiVars, aiVars, text_out, last_call, scanVars>>

HandleResponse(event, exec_outcome, save_outcome) ==
    /\ last_call.op = "none"
    /\ exec_outcome \in ExecOutcomes(Flatten(CodeToExecute(Flatten(text_in))))
    /\ save_outcome # "ok" => ~exec_outcome.raises /\ CodeToExecute(Flatten(text_in)) # <<>>
    /\ LET r == handle_response(Window, statusbar, session_file, Flatten(text_in), now,
                                event, exec_outcome, save_outcome)
       IN  /\ SetWindow(r.window)
           /\ statusbar' = r.statusbar
           /\ session_file' = r.session_file
           /\ last_call' = [op |-> "handle_response", executed |-> r.executed,
                            raised |-> r.raised]
    /\ UNCHANGED <<now, running, aiVars, textVars, scanVars>>

NextReply ==
    \/ \E piece \in ReplyPieces : ReceivePiece(piece)
    \/ \E event \in {NoEvent, NewChatEvent, ItemEvent("delete", 1)} :
          \E exec_outcome \in ExecOutcomes(CallF) : \E save_outcome \in SaveOutcomes :
             HandleResponse(event, exec_outcome, save_outcome)

SpecReply == InitReply /\ [][NextReply]_vars

\* where a python fence followed by white space starts
Openings(text) ==
    {p \in 1..Len(text) :
        /\ MatchAt(text, FencePython, p)
        /\ p + Len(FencePython) <= Len(text) /\ IsSpace(text[p + Len(FencePython)])}

\* where a fence preceded by white space starts
Closings(text) == {c \in 2..Len(text) : MatchAt(text, Fence, c) /\ IsSpace(text[c - 1])}

\* the closings of an opening: its white space and theirs are not the same
ClosingsOf(text, p) == {c \in Closings(text) : c >= p + Len(FencePython) + 2}

ClosedOpenings(text) == {p \in Openings(text) : ClosingsOf(text, p) # {}}

\* the last position of the white space that follows the opening at p
OpeningEnd(text, p) ==
    SetMax({q \in (p + Len(FencePython))..Len(text) :
               \A i \in (p + Len(FencePython))..q : IsSpace(text[i])})

\* the first python block of a text that has one: what follows the white
\* space of the first closed opening, up to the white space before the next
\* closing; it is empty when the opening's white space is all there is
\* before a closing
FirstPythonBlock(text) ==
    LET p == SetMin(ClosedOpenings(text))
        q == OpeningEnd(text, p)
        later == {c \in Closings(text) : c > q + 2}
    IN  IF later = {} THEN <<>>
        ELSE RStrip(SubSeq(text, q + 1, SetMin(later) - 1))

\* C2: handle_response hands to exec the first python block of the reply,
\* formatted, and nothing else; on a reply without such a block it executes
\* nothing, raises nothing and leaves the displayed messages, the sessions,
\* the status bar and the session file as they were.
C2_ExecutesFirstBlockOnly ==
    [][last_call'.op = "handle_response" =>
          LET text == Flatten(text_in)
          IN  IF ClosedOpenings(text) = {}
              THEN /\ last_call'.executed = <<>> /\ ~last_call'.raised
                   /\ UNCHANGED <<windowVars, statusbar, session_file>>
              ELSE last_call'.executed =
                      <<format_for_cloudcompare_exec(FirstPythonBlock(text))>>]_vars

\* a reply with the blocks f() and g(): f() was executed
C2_Witness ==
    /\ last_call.op = "handle_response"
    /\ text_in = <<OpenF, CloseBlock, OpenG, CloseBlock>>
    /\ last_call.executed = <<CallF>>
    /\ \E i \in 1..Len(chat_history) :
          /\ chat_history[i].messages # <<>>
          /\ chat_history[i].messages[1].text = CallF

(***************************************************************************)
(* CloudCompareAPIScan: modules from reflection, stub files and            *)
(* documentation (src/ccAPIScanner.py:92-260, 359-561, 563-850).           *)
(*                                                                         *)
(* A Python dict with names as keys is a function from those names; {} is  *)
(* the empty function.  Python's ast, re and inspect are not modelled: a   *)
(* stub file carries the ClassDef and FunctionDef nodes of its tree in     *)
(* ast.walk order, a documentation file carries the matches of the         *)
(* directive patterns, a live module carries what inspect reports of it    *)
(* (all obtained from Python itself).  A Python str is a sequence of       *)
(* characters.                                                             *)
(***************************************************************************)
\* a constant of a stub file's source: its type's name and its str()
PyConst(type, text) == [type |-> type, str |-> text]
Ellipsis == PyConst("ellipsis", <<"E", "l", "l", "i", "p", "s", "i", "s">>)

\* the expressions of a tree
NoNode == [node |-> "None"]
NameNode(id) == [node |-> "Name", id |-> id]
AttributeNode(value, attr) == [node |-> "Attribute", value |-> value, attr |-> attr]
SubscriptNode(value, slice) == [node |-> "Subscript", value |-> value, slice |-> slice]
TupleNode(elts) == [node |-> "Tuple", elts |-> elts]
ConstantNode(value) == [node |-> "Constant", value |-> value]
OtherNode == [node |-> "Other"]

\* lines 349-357
RECURSIVE _get_attribute_source(_)
_get_attribute_source(node) ==
    IF node.value.node = "Name" THEN node.value.id
    ELSE IF node.value.node = "Attribute"
    THEN _get_attribute_source(node.value) \o <<".">> \o node.value.attr
    ELSE <<"u", "n", "k", "n", "o", "w", "n">>

\* f"{source}.{attr}", lines 487, 524, 540
Dotted(node) == _get_attribute_source(node) \o <<".">> \o node.attr

\* lines 532-561, as Python 3.9 and later parse a subscript (no ast.Index)
_format_subscript(node) ==
    LET container == IF node.value.node = "Name" THEN node.value.id
                     ELSE IF node.value.node = "Attribute" THEN Dotted(node.value)
                     ELSE <<>>
    IN  IF node.slice.node = "Name"
        THEN container \o <<"[">> \o node.slice.id \o <<"]">>
        ELSE IF node.slice.node = "Tuple"
        THEN container \o <<"[">>
                 \o Join([i \in 1..Len(node.slice.elts) |->
                             IF node.slice.elts[i].node = "Name" THEN node.slice.elts[i].id
                             ELSE <<"?">>], <<",", " ">>)
                 \o <<"]">>
        ELSE container \o <<"[", ".", ".", ".", "]">>

\* lines 483-491 and 520-528: the text written for a type expression
TypeText(annotation, complex) ==
    IF annotation.node = "Name" THEN annotation.id
    ELSE IF annotation.node = "Attribute" THEN Dotted(annotation)
    ELSE IF annotation.node = "Subscript" THEN _format_subscript(annotation)
    ELSE complex

ComplexType == <<"c", "o", "m", "p", "l", "e", "x", "_", "t", "y", "p", "e">>
ComplexReturnType ==
    <<"c", "o", "m", "p", "l", "e", "x", "_", "r", "e", "t", "u", "r", "n", "_", "t", "y", "p", "e">>
ComplexDefault ==
    <<"c", "o", "m", "p", "l", "e", "x", "_", "d", "e", "f", "a", "u", "l", "t">>
SelfName == <<"s", "e", "l", "f">>

\* lines 473-493: one param_info per argument but self, all required
RECURSIVE ParamInfos(_)
ParamInfos(args) ==
    IF args = <<>> THEN <<>>
    ELSE LET arg == Head(args)
             named == [name |-> arg.arg, required |-> TRUE]
         IN  (IF arg.arg = SelfName THEN <<>>
              ELSE IF arg.annotation.node = "None" THEN <<named>>
              ELSE <<SetKey(named, "type", TypeText(arg.annotation, ComplexType))>>)
             \o ParamInfos(Tail(args))

\* lines 504-510
DefaultOf(default) ==
    IF default.node = "Constant" THEN default.value
    ELSE IF default.node = "Name" THEN PyConst("str", default.id)
    ELSE PyConst("str", ComplexDefault)

\* lines 496-510: the i-th default goes to the parameter at
\* len(parameters) - defaults_count + i, when there is one
RECURSIVE ApplyDefaults(_, _, _)
ApplyDefaults(parameters, defaults, i) ==
    IF i > Len(defaults) THEN parameters
    ELSE LET idx == Len(parameters) - Len(defaults) + i
         IN  ApplyDefaults(
                 IF idx >= 1 /\ idx <= Len(parameters)
                 THEN [parameters EXCEPT ![idx] =
                          SetKey(SetKey(@, "required", FALSE), "default",
                                 DefaultOf(defaults[i]))]
                 ELSE parameters,
                 defaults, i + 1)

\* the parameters with the defaults of the declaration left out
ParametersWithoutDefaults(func_node) == ParamInfos(func_node.args)

\* lines 467-512
_extract_parameters_from_stub(func_node) ==
    ApplyDefaults(ParamInfos(func_node.args), func_node.defaults, 1)

\* lines 514-530
_extract_return_type_from_stub(func_node) ==
    IF func_node.returns.node = "None" THEN EmptyDict
    ELSE [type |-> TypeText(func_node.returns, ComplexReturnType)]

\* a FunctionDef node: args are func_node.args.args, defaults are
\* func_node.args.defaults, docstring is ast.get_docstring (<<>> for None)
FunctionDef(name, docstring, args, defaults, returns) ==
    [node |-> "FunctionDef", name |-> name, docstring |-> docstring, args |-> args,
     defaults |-> defaults, returns |-> returns]
Arg(arg, annotation) == [arg |-> arg, annotation |-> annotation]

\* a ClassDef node: body holds the FunctionDef nodes of node.body
ClassDef(name, bases, docstring, body) ==
    [node |-> "ClassDef", name |-> name, bases |-> bases, docstring |-> docstring,
     body |-> body]

Underscore == <<"_">>
InitName == <<"_", "_", "i", "n", "i", "t", "_", "_">>
ClassFromStub == <<"C", "l", "a", "s", "s", " ", "f", "r", "o", "m", " ", "s", "t", "u", "b", " ", "f", "i", "l", "e">>
FromStubFile == <<" ", "f", "r", "o", "m", " ", "s", "t", "u", "b", " ", "f", "i", "l", "e">>
MethodWord == <<"M", "e", "t", "h", "o", "d", " ">>
FunctionWord == <<"F", "u", "n", "c", "t", "i", "o", "n", " ">>

\* x or y, for a str x
Or(x, y) == IF x # <<>> THEN x ELSE y

\* lines 442 and 455
IsSkippedName(name) == StartsWith(name, Underscore) /\ name # InitName

\* lines 446-450 and 459-463: the record written for a FunctionDef
StubFunctionRecord(func_node, word) ==
    [description |-> Or(func_node.docstring, word \o func_node.name \o FromStubFile),
     parameters |-> _extract_parameters_from_stub(func_node),
     returns |-> _extract_return_type_from_stub(func_node)]

\* lines 440-450: the methods of a class after the FunctionDef nodes of a body
RECURSIVE StubMethods(_, _)
StubMethods(methods, body) ==
    IF body = <<>> THEN methods
    ELSE LET method_node == Head(body)
         IN  StubMethods(IF IsSkippedName(method_node.name) THEN methods
                         ELSE SetKey(methods, method_node.name,
                                     StubFunctionRecord(method_node, MethodWord)),
                         Tail(body))

\* line 425
RECURSIVE NameIds(_)
NameIds(bases) ==
    IF bases = <<>> THEN <<>>
    ELSE (IF Head(bases).node = "Name" THEN <<Head(bases).id>> ELSE <<>>)
             \o NameIds(Tail(bases))

\* lines 423-450: a module record after one ClassDef node
StubClass(module, node) ==
    LET class_dict ==
            IF node.name \in DOMAIN module.classes THEN module.classes[node.name]
            ELSE [name |-> node.name,
                  description |-> Or(node.docstring, ClassFromStub),
                  methods |-> EmptyDict, properties |-> EmptyDict,
                  parent_classes |-> NameIds(node.bases)]
    IN  [module EXCEPT !.classes =
            SetKey(@, node.name,
                   [class_dict EXCEPT !.methods = StubMethods(@, node.body)])]

\* lines 453-463: a module record after one FunctionDef node
StubFunction(module, node) ==
    IF IsSkippedName(node.name) THEN module
    ELSE [module EXCEPT !.functions =
             SetKey(@, node.name, StubFunctionRecord(node, FunctionWord))]

\* lines 421-463: the nodes of ast.walk(tree), in order
RECURSIVE StubNodes(_, _)
StubNodes(module, nodes) ==
    IF nodes = <<>> THEN module
    ELSE StubNodes(IF Head(nodes).node = "ClassDef" THEN StubClass(module, Head(nodes))
                   ELSE StubFunction(module, Head(nodes)),
                   Tail(nodes))

\* lines 414-465: a text that does not parse changes nothing
_parse_stub_file(modules, module_name, stub) ==
    IF ~stub.ast.ok THEN modules
    ELSE [modules EXCEPT ![module_name] = StubNodes(@, stub.ast.nodes)]

\* os.path.basename(stub_file).split('.')[0], line 386
ModuleOfStub(stub_file) ==
    LET parts == SplitOn(stub_file, "/")
    IN  SplitOn(parts[Len(parts)], ".")[1]

ModuleFromStub ==
    <<"M", "o", "d", "u", "l", "e", " ", "i", "n", "f", "o", "r", "m", "a", "t", "i", "o", "n", " ", "f", "r", "o", "m", " ", "s", "t", "u", "b", " ", "f", "i", "l", "e">>

\* a module record with the two mappings the file scans fill, and no others
NewModuleOfTwoMappings(module_name, description) ==
    [name |-> module_name, description |-> description,
     functions |-> EmptyDict, classes |-> EmptyDict]

\* lines 394-401, 606-613: a module record made by a scan of files
NewModule(module_name, description) ==
    [name |-> module_name, description |-> description,
     functions |-> EmptyDict, classes |-> EmptyDict,
     constants |-> EmptyDict, enums |-> EmptyDict]

\* lines 383-412: a file that cannot be read changes nothing
_process_stub_file(modules, stub) ==
    IF ~stub.readable THEN modules
    ELSE LET module_name == ModuleOfStub(stub.path)
             present == IF module_name \in DOMAIN modules THEN modules
                        ELSE SetKey(modules, module_name,
                                    NewModule(module_name, ModuleFromStub))
             filed == [present EXCEPT ![module_name] =
                          SetKey(@, "stub_file",
                                 [path |-> stub.path, content |-> stub.text])]
         IN  _parse_stub_file(filed, module_name, stub)

\* lines 365-381, for paths that are .pyi files
RECURSIVE _scan_stub_files(_, _)
_scan_stub_files(modules, stub_files) ==
    IF stub_files = <<>> THEN modules
    ELSE _scan_stub_files(_process_stub_file(modules, Head(stub_files)), Tail(stub_files))

FooStub ==
    [path |-> <<"s", "t", "u", "b", "s", "/", "p", "y", "c", "c", ".", "p", "y", "i">>,
     readable |-> TRUE,
     text |-> <<"c", "l", "a", "s", "s", " ", "F", "o", "o", "(", "B", "a", "r", ")", ":", "\n", " ", " ", " ", " ", "d", "e", "f", " ", "b", "a", "r", "(", "s", "e", "l", "f", ",", " ", "x", ":", " ", "i", "n", "t", ",", " ", "y", ":", " ", "s", "t", "r", " ", "=", " ", "\"", "z", "\"", ")", " ", "-", ">", " ", "b", "o", "o", "l", ":", " ", ".", ".", ".", "\n", " ", " ", " ", " ", "d", "e", "f", " ", "_", "h", "i", "d", "(", "s", "e", "l", "f", ")", ":", " ", ".", ".", ".", "\n", " ", " ", " ", " ", "d", "e", "f", " ", "_", "_", "i", "n", "i", "t", "_", "_", "(", "s", "e", "l", "f", ",", " ", "n", "=", ".", ".", ".", ")", ":", " ", ".", ".", ".", "\n">>,
     ast |-> [ok |-> TRUE, nodes |-> <<ClassDef(<<"F", "o", "o">>, <<NameNode(<<"B", "a", "r">>)>>, <<>>, <<FunctionDef(<<"b", "a", "r">>, <<>>, <<Arg(<<"s", "e", "l", "f">>, NoNode), Arg(<<"x">>, NameNode(<<"i", "n", "t">>)), Arg(<<"y">>, NameNode(<<"s", "t", "r">>))>>, <<ConstantNode(PyConst("str", <<"z">>))>>, NameNode(<<"b", "o", "o", "l">>)), FunctionDef(<<"_", "h", "i", "d">>, <<>>, <<Arg(<<"s", "e", "l", "f">>, NoNode)>>, <<>>, NoNode), FunctionDef(<<"_", "_", "i", "n", "i", "t", "_", "_">>, <<>>, <<Arg(<<"s", "e", "l", "f">>, NoNode), Arg(<<"n">>, NoNode)>>, <<ConstantNode(Ellipsis)>>, NoNode)>>),
         FunctionDef(<<"b", "a", "r">>, <<>>, <<Arg(<<"s", "e", "l", "f">>, NoNode), Arg(<<"x">>, NameNode(<<"i", "n", "t">>)), Arg(<<"y">>, NameNode(<<"s", "t", "r">>))>>, <<ConstantNode(PyConst("str", <<"z">>))>>, NameNode(<<"b", "o", "o", "l">>)),
         FunctionDef(<<"_", "h", "i", "d">>, <<>>, <<Arg(<<"s", "e", "l", "f">>, NoNode)>>, <<>>, NoNode),
         FunctionDef(<<"_", "_", "i", "n", "i", "t", "_", "_">>, <<>>, <<Arg(<<"s", "e", "l", "f">>, NoNode), Arg(<<"n">>, NoNode)>>, <<ConstantNode(Ellipsis)>>, NoNode)>>]]

ToolsStub ==
    [path |-> <<"s", "t", "u", "b", "s", "/", "c", "c", "c", "o", "r", "e", "l", "i", "b", ".", "p", "y", "i">>,
     readable |-> TRUE,
     text |-> <<"d", "e", "f", " ", "r", "u", "n", "(", "a", ",", " ", "b", ":", " ", "n", "p", ".", "n", "d", "a", "r", "r", "a", "y", " ", "=", " ", "N", "o", "n", "e", ",", " ", "c", ":", " ", "L", "i", "s", "t", "[", "i", "n", "t", "]", " ", "=", " ", "[", "]", ",", " ", "d", ":", " ", "D", "i", "c", "t", "[", "s", "t", "r", ",", " ", "A", ".", "B", "]", " ", "=", " ", "X", ")", " ", "-", ">", " ", "t", ".", "A", "n", "y", ":", "\n", " ", " ", " ", " ", "\"", "\"", "\"", "R", "u", "n", "s", ".", "\"", "\"", "\"", "\n", "c", "l", "a", "s", "s", " ", "C", "l", "o", "u", "d", "(", "m", ".", "B", "a", "s", "e", ",", " ", "F", "o", "o", ")", ":", "\n", " ", " ", " ", " ", "\"", "\"", "\"", "A", " ", "c", "l", "o", "u", "d", ".", "\"", "\"", "\"", "\n", " ", " ", " ", " ", "d", "e", "f", " ", "s", "i", "z", "e", "(", "s", "e", "l", "f", ")", " ", "-", ">", " ", "\"", "i", "n", "t", "\"", ":", " ", ".", ".", ".", "\n">>,
     ast |-> [ok |-> TRUE, nodes |-> <<FunctionDef(<<"r", "u", "n">>, <<"R", "u", "n", "s", ".">>, <<Arg(<<"a">>, NoNode), Arg(<<"b">>, AttributeNode(NameNode(<<"n", "p">>), <<"n", "d", "a", "r", "r", "a", "y">>)), Arg(<<"c">>, SubscriptNode(NameNode(<<"L", "i", "s", "t">>), NameNode(<<"i", "n", "t">>))), Arg(<<"d">>, SubscriptNode(NameNode(<<"D", "i", "c", "t">>), TupleNode(<<NameNode(<<"s", "t", "r">>), AttributeNode(NameNode(<<"A">>), <<"B">>)>>)))>>, <<ConstantNode(PyConst("NoneType", <<"N", "o", "n", "e">>)), OtherNode, NameNode(<<"X">>)>>, AttributeNode(NameNode(<<"t">>), <<"A", "n", "y">>)),
         ClassDef(<<"C", "l", "o", "u", "d">>, <<AttributeNode(NameNode(<<"m">>), <<"B", "a", "s", "e">>), NameNode(<<"F", "o", "o">>)>>, <<"A", " ", "c", "l", "o", "u", "d", ".">>, <<FunctionDef(<<"s", "i", "z", "e">>, <<>>, <<Arg(<<"s", "e", "l", "f">>, NoNode)>>, <<>>, ConstantNode(PyConst("str", <<"i", "n", "t">>)))>>),
         FunctionDef(<<"s", "i", "z", "e">>, <<>>, <<Arg(<<"s", "e", "l", "f">>, NoNode)>>, <<>>, ConstantNode(PyConst("str", <<"i", "n", "t">>)))>>]]

BrokenStub ==
    [path |-> <<"m", "o", "r", "e", "/", "p", "y", "c", "c", ".", "p", "y", "i">>,
     readable |-> TRUE,
     text |-> <<"c", "l", "a", "s", "s", " ", "F", "o", "o", "(", ":", "\n">>,
     ast |-> [ok |-> FALSE, nodes |-> <<>>]]

UnreadableStub ==
    [path |-> <<"m", "o", "r", "e", "/", "o", "t", "h", "e", "r", ".", "p", "y", "i">>,
     readable |-> FALSE,
     text |-> <<>>,
     ast |-> [ok |-> TRUE, nodes |-> <<>>]]

(***************************************************************************)
(* Reflection (lines 92-260).  A live function carries its getdoc text     *)
(* (<<>> for None) and what inspect.signature makes of it; a live class    *)
(* its getdoc text, the names of its bases and its getmembers list, or     *)
(* the fact that getmembers raises; a live module its getmembers list.     *)
(***************************************************************************)
NoDescription ==
    <<"N", "o", " ", "d", "e", "s", "c", "r", "i", "p", "t", "i", "o", "n", " ", "a", "v", "a", "i", "l", "a", "b", "l", "e">>
FailedToDocument ==
    <<"F", "a", "i", "l", "e", "d", " ", "t", "o", " ", "d", "o", "c", "u", "m", "e", "n", "t", " ", "f", "u", "n", "c", "t", "i", "o", "n", ":", " ">>
PropertyDetected ==
    <<"P", "r", "o", "p", "e", "r", "t", "y", " ", "d", "e", "t", "e", "c", "t", "e", "d", " ", "b", "y", " ", "i", "n", "t", "r", "o", "s", "p", "e", "c", "t", "i", "o", "n">>
ObjectName == <<"o", "b", "j", "e", "c", "t">>

\* lines 198-215
RECURSIVE SignatureParams(_)
SignatureParams(parameters) ==
    IF parameters = <<>> THEN <<>>
    ELSE LET param == Head(parameters)
             named == [name |-> param.name, required |-> ~param.has_default]
             typed == IF param.has_annotation THEN SetKey(named, "type", param.annotation)
                      ELSE named
         IN  (IF param.name = SelfName THEN <<>>
              ELSE IF param.has_default
              THEN <<SetKey(typed, "default", PyConst("str", param.default))>>
              ELSE <<typed>>)
             \o SignatureParams(Tail(parameters))

\* lines 189-231
_document_function(func) ==
    IF func.signature.ok
    THEN [description |-> Or(func.doc, NoDescription),
          parameters |-> SignatureParams(func.signature.parameters),
          returns |-> IF func.signature.has_return
                      THEN [type |-> func.signature.return_annotation] ELSE EmptyDict]
    ELSE [description |-> Or(func.doc, NoDescription),
          error |-> FailedToDocument \o func.signature.error]

\* lines 172-185: the members of a class, in getmembers order
RECURSIVE ClassMembers(_, _)
ClassMembers(class_doc, members) ==
    IF members = <<>> THEN class_doc
    ELSE LET member == Head(members)
         IN  ClassMembers(
                 IF StartsWith(member.name, Underscore) THEN class_doc
                 ELSE IF member.kind = "function"
                 THEN [class_doc EXCEPT !.methods =
                          SetKey(@, member.name, _document_function(member))]
                 ELSE IF member.kind = "property"
                 THEN [class_doc EXCEPT !.properties =
                          SetKey(@, member.name,
                                 [type |-> member.type, description |-> PropertyDetected])]
                 ELSE class_doc,
                 Tail(members))

\* lines 159-187; raised when inspect.getmembers(cls) raises
_document_class(cls) ==
    IF cls.raises THEN [raised |-> TRUE, value |-> EmptyDict]
    ELSE [raised |-> FALSE,
          value |-> ClassMembers(
                        [name |-> cls.class_name,
                         description |-> Or(cls.doc, NoDescription),
                         methods |-> EmptyDict, properties |-> EmptyDict,
                         parent_classes |-> SelectSeq(cls.bases,
                                                      LAMBDA base : base # ObjectName)],
                        cls.members)]

\* str.isupper(): a cased character, and no lower-case one
IsUpperName(name) ==
    /\ \E i \in 1..Len(name) : IsUpper(name[i])
    /\ \A i \in 1..Len(name) : ~IsLower(name[i])

\* lines 129-155: the members of a module, in getmembers order; a class whose
\* documentation raises ends the loop
RECURSIVE ModuleMembers(_, _)
ModuleMembers(module_doc, members) ==
    IF members = <<>> THEN [raised |-> FALSE, value |-> module_doc]
    ELSE LET member == Head(members)
             valued == [value |-> member.value, type |-> member.type]
         IN  IF StartsWith(member.name, Underscore)
             THEN ModuleMembers(module_doc, Tail(members))
             ELSE IF member.kind = "function"
             THEN ModuleMembers([module_doc EXCEPT !.functions =
                                    SetKey(@, member.name, _document_function(member))],
                                Tail(members))
             ELSE IF member.kind = "class"
             THEN IF _document_class(member).raised
                  THEN [raised |-> TRUE, value |-> module_doc]
                  ELSE ModuleMembers([module_doc EXCEPT !.classes =
                                         SetKey(@, member.name, _document_class(member).value)],
                                     Tail(members))
             ELSE IF member.kind = "value"
             THEN ModuleMembers(
                      IF IsUpperName(member.name)
                      THEN [module_doc EXCEPT !.constants = SetKey(@, member.name, valued)]
                      ELSE [module_doc EXCEPT !.enums = SetKey(@, member.name, valued)],
                      Tail(members))
             ELSE ModuleMembers(module_doc, Tail(members))

\* lines 115-157
_document_module(module) ==
    ModuleMembers(NewModule(module.name, Or(module.doc, NoDescription)), module.members)

\* lines 233-260: the functions of the instance's class and the members of the
\* instance that are not callable
RECURSIVE InstanceMethods(_, _)
InstanceMethods(methods, members) ==
    IF members = <<>> THEN methods
    ELSE LET member == Head(members)
         IN  InstanceMethods(
                 IF StartsWith(member.name, Underscore) \/ member.kind # "function"
                 THEN methods
                 ELSE SetKey(methods, member.name, _document_function(member)),
                 Tail(members))

RECURSIVE InstanceProperties(_, _)
InstanceProperties(properties, members) ==
    IF members = <<>> THEN properties
    ELSE LET member == Head(members)
         IN  InstanceProperties(
                 IF StartsWith(member.name, Underscore) \/ member.callable THEN properties
                 ELSE SetKey(properties, member.name, [type |-> member.type]),
                 Tail(members))

_document_instance(instance) ==
    [methods |-> InstanceMethods(EmptyDict, instance.class_members),
     properties |-> InstanceProperties(EmptyDict, instance.members)]

PyccName == <<"p", "y", "c", "c">>
CccorelibName == <<"c", "c", "c", "o", "r", "e", "l", "i", "b">>

\* lines 92-113, with pycc imported: the document, and whether an exception
\* left the call; live.instance.raises when pycc.GetInstance() or the
\* documentation of the instance raises (lines 104-108)
_scan_api_structure(data, live) ==
    LET pycc == _document_module(live.pycc)
        with_pycc == [data EXCEPT !.modules = SetKey(@, PyccName, pycc.value)]
        with_instance ==
            IF live.instance.raises THEN with_pycc
            ELSE [with_pycc EXCEPT !.instance_methods = _document_instance(live.instance)]
        cccorelib == _document_module(live.cccorelib)
    IN  IF pycc.raised THEN [raised |-> TRUE, value |-> data]
        ELSE IF ~live.has_cccorelib THEN [raised |-> FALSE, value |-> with_instance]
        ELSE IF cccorelib.raised THEN [raised |-> TRUE, value |-> with_instance]
        ELSE [raised |-> FALSE,
              value |-> [with_instance EXCEPT !.modules =
                            SetKey(@, CccorelibName, cccorelib.value)]]

EmptyModule == [name |-> <<>>, doc |-> <<>>, members |-> <<>>]

PyccModule ==
    [name |-> <<"p", "y", "c", "c">>, doc |-> <<"L", "i", "v", "e", " ", "p", "y", "c", "c", ".">>,
      members |-> <<[name |-> <<"F", "o", "o">>, class_name |-> <<"F", "o", "o">>, kind |-> "class", doc |-> <<"L", "i", "v", "e", " ", "F", "o", "o", ".">>, bases |-> <<<<"_", "B", "a", "s", "e">>>>, raises |-> FALSE,
            members |-> <<[name |-> <<"I", "n", "n", "e", "r">>, kind |-> "other"],
                 [name |-> <<"_", "h", "i", "d">>, kind |-> "function", doc |-> <<>>, signature |-> [ok |-> TRUE, parameters |-> <<[name |-> <<"s", "e", "l", "f">>, has_annotation |-> FALSE, annotation |-> <<>>, has_default |-> FALSE, default |-> <<>>]>>, has_return |-> FALSE, return_annotation |-> <<>>, error |-> <<>>]],
                 [name |-> <<"b", "a", "r">>, kind |-> "function", doc |-> <<"L", "i", "v", "e", " ", "b", "a", "r", ".">>, signature |-> [ok |-> TRUE, parameters |-> <<[name |-> <<"s", "e", "l", "f">>, has_annotation |-> FALSE, annotation |-> <<>>, has_default |-> FALSE, default |-> <<>>], [name |-> <<"x">>, has_annotation |-> FALSE, annotation |-> <<>>, has_default |-> FALSE, default |-> <<>>]>>, has_return |-> FALSE, return_annotation |-> <<>>, error |-> <<>>]],
                 [name |-> <<"l", "a", "b", "e", "l">>, kind |-> "property", type |-> <<"p", "r", "o", "p", "e", "r", "t", "y">>],
                 [name |-> <<"s", "i", "z", "e">>, kind |-> "property", type |-> <<"i", "n", "t">>]>>],
           [name |-> <<"M", "A", "X", "_", "P", "O", "I", "N", "T", "S">>, kind |-> "value", value |-> PyConst("int", <<"3">>), type |-> <<"i", "n", "t">>],
           [name |-> <<"P", "l", "a", "i", "n">>, class_name |-> <<"P", "l", "a", "i", "n">>, kind |-> "class", doc |-> <<>>, bases |-> <<<<"o", "b", "j", "e", "c", "t">>>>, raises |-> FALSE,
            members |-> <<>>],
           [name |-> <<"_", "B", "a", "s", "e">>, class_name |-> <<"_", "B", "a", "s", "e">>, kind |-> "class", doc |-> <<>>, bases |-> <<<<"o", "b", "j", "e", "c", "t">>>>, raises |-> FALSE,
            members |-> <<>>],
           [name |-> <<"_", "p", "r", "i", "v", "a", "t", "e">>, kind |-> "value", value |-> PyConst("int", <<"1">>), type |-> <<"i", "n", "t">>],
           [name |-> <<"h", "e", "l", "p", "e", "r">>, kind |-> "other"],
           [name |-> <<"l", "o", "a", "d">>, kind |-> "function", doc |-> <<"L", "o", "a", "d", "s", ".">>, signature |-> [ok |-> TRUE, parameters |-> <<[name |-> <<"p", "a", "t", "h">>, has_annotation |-> TRUE, annotation |-> <<"<", "c", "l", "a", "s", "s", " ", "'", "s", "t", "r", "'", ">">>, has_default |-> FALSE, default |-> <<>>], [name |-> <<"s", "i", "l", "e", "n", "t">>, has_annotation |-> FALSE, annotation |-> <<>>, has_default |-> TRUE, default |-> <<"F", "a", "l", "s", "e">>]>>, has_return |-> TRUE, return_annotation |-> <<"<", "c", "l", "a", "s", "s", " ", "'", "i", "n", "t", "'", ">">>, error |-> <<>>]],
           [name |-> <<"o", "d", "d">>, kind |-> "function", doc |-> <<>>, signature |-> [ok |-> FALSE, parameters |-> <<>>, has_return |-> FALSE, return_annotation |-> <<>>, error |-> <<"u", "n", "e", "x", "p", "e", "c", "t", "e", "d", " ", "o", "b", "j", "e", "c", "t", " ", "1", " ", "i", "n", " ", "_", "_", "s", "i", "g", "n", "a", "t", "u", "r", "e", "_", "_", " ", "a", "t", "t", "r", "i", "b", "u", "t", "e">>]],
           [name |-> <<"s", "c", "a", "l", "e">>, kind |-> "value", value |-> PyConst("float", <<"1", ".", "5">>), type |-> <<"f", "l", "o", "a", "t">>]>>]

BadPyccModule ==
    [name |-> <<"p", "y", "c", "c">>, doc |-> <<>>,
      members |-> <<[name |-> <<"B", "a", "d">>, class_name |-> <<"B", "a", "d">>, kind |-> "class", doc |-> <<>>, bases |-> <<<<"o", "b", "j", "e", "c", "t">>>>, raises |-> TRUE,
            members |-> <<>>],
           [name |-> <<"B", "o", "o", "m">>, class_name |-> <<"B", "o", "o", "m">>, kind |-> "class", doc |-> <<>>, bases |-> <<<<"o", "b", "j", "e", "c", "t">>>>, raises |-> FALSE,
            members |-> <<>>],
           [name |-> <<"F", "o", "o">>, class_name |-> <<"F", "o", "o">>, kind |-> "class", doc |-> <<"L", "i", "v", "e", " ", "F", "o", "o", ".">>, bases |-> <<<<"o", "b", "j", "e", "c", "t">>>>, raises |-> FALSE,
            members |-> <<>>]>>]

CccorelibModule ==
    [name |-> <<"c", "c", "c", "o", "r", "e", "l", "i", "b">>, doc |-> <<>>,
      members |-> <<[name |-> <<"d", "i", "s", "t">>, kind |-> "function", doc |-> <<>>, signature |-> [ok |-> TRUE, parameters |-> <<[name |-> <<"a">>, has_annotation |-> FALSE, annotation |-> <<>>, has_default |-> FALSE, default |-> <<>>], [name |-> <<"b">>, has_annotation |-> FALSE, annotation |-> <<>>, has_default |-> TRUE, default |-> <<"2", ".", "5">>]>>, has_return |-> FALSE, return_annotation |-> <<>>, error |-> <<>>]]>>]

LiveInstance ==
    [raises |-> FALSE,
      class_members |-> <<[name |-> <<"r", "e", "a", "d", "y">>, kind |-> "property", type |-> <<"b", "o", "o", "l">>], [name |-> <<"r", "u", "n">>, kind |-> "function", doc |-> <<"R", "u", "n", "s", ".">>, signature |-> [ok |-> TRUE, parameters |-> <<[name |-> <<"s", "e", "l", "f">>, has_annotation |-> FALSE, annotation |-> <<>>, has_default |-> FALSE, default |-> <<>>], [name |-> <<"n">>, has_annotation |-> TRUE, annotation |-> <<"<", "c", "l", "a", "s", "s", " ", "'", "i", "n", "t", "'", ">">>, has_default |-> TRUE, default |-> <<"1">>]>>, has_return |-> FALSE, return_annotation |-> <<>>, error |-> <<>>]]>>,
      members |-> <<[name |-> <<"c", "o", "u", "n", "t">>, callable |-> FALSE, type |-> <<"i", "n", "t">>], [name |-> <<"r", "e", "a", "d", "y">>, callable |-> FALSE, type |-> <<"b", "o", "o", "l">>], [name |-> <<"r", "u", "n">>, callable |-> TRUE, type |-> <<"m", "e", "t", "h", "o", "d">>]>>]

NoInstance ==
    [raises |-> TRUE, class_members |-> <<>>, members |-> <<>>]

NotImportable ==
    [has_pycc |-> FALSE, pycc |-> EmptyModule, instance |-> NoInstance,
     has_cccorelib |-> FALSE, cccorelib |-> EmptyModule]

LiveBoth ==
    [has_pycc |-> TRUE, pycc |-> PyccModule, instance |-> LiveInstance,
     has_cccorelib |-> TRUE, cccorelib |-> CccorelibModule]

LivePyccOnly ==
    [has_pycc |-> TRUE, pycc |-> PyccModule, instance |-> NoInstance,
     has_cccorelib |-> FALSE, cccorelib |-> EmptyModule]

LiveBadClass ==
    [has_pycc |-> TRUE, pycc |-> BadPyccModule, instance |-> LiveInstance,
     has_cccorelib |-> TRUE, cccorelib |-> CccorelibModule]

(***************************************************************************)
(* Documentation files (lines 563-850).  A file carries its text, the      *)
(* title _extract_title_from_doc finds in it, and the matches of the       *)
(* class, function and method directive patterns with their groups; for a  *)
(* class match, compiling the method pattern from the class name may raise *)
(* re.error.                                                               *)
(***************************************************************************)
ModuleFromDocumentation ==
    <<"M", "o", "d", "u", "l", "e", " ", "f", "r", "o", "m", " ", "d", "o", "c", "u", "m", "e", "n", "t", "a", "t", "i", "o", "n">>
ClassFromDocumentation ==
    <<"C", "l", "a", "s", "s", " ", "f", "r", "o", "m", " ", "d", "o", "c", "u", "m", "e", "n", "t", "a", "t", "i", "o", "n">>
FunctionFromDocumentation ==
    <<"F", "u", "n", "c", "t", "i", "o", "n", " ", "f", "r", "o", "m", " ", "d", "o", "c", "u", "m", "e", "n", "t", "a", "t", "i", "o", "n">>
MethodFromDocumentation ==
    <<"M", "e", "t", "h", "o", "d", " ", "f", "r", "o", "m", " ", "d", "o", "c", "u", "m", "e", "n", "t", "a", "t", "i", "o", "n">>
CommonName == <<"c", "o", "m", "m", "o", "n">>
UnknownName == <<"u", "n", "k", "n", "o", "w", "n">>

\* the module of a documentation file when the path is asked only whether
\* it names exactly one module
InferWithoutPythonPattern(doc) ==
    LET path_lower == Lower(doc.path)
        content == Lower(doc.text)
        parts == SplitOn(path_lower, "/")
        filename == parts[Len(parts)]
    IN  IF Contains(path_lower, PyccName) /\ ~Contains(path_lower, CccorelibName)
        THEN PyccName
        ELSE IF Contains(path_lower, CccorelibName) /\ ~Contains(path_lower, PyccName)
        THEN CccorelibName
        ELSE IF Contains(content, PyccName) /\ ~Contains(content, CccorelibName)
        THEN PyccName
        ELSE IF Contains(content, CccorelibName) /\ ~Contains(content, PyccName)
        THEN CccorelibName
        ELSE IF Contains(content, PyccName) /\ Contains(content, CccorelibName)
        THEN IF Contains(filename, PyccName) THEN PyccName
             ELSE IF Contains(filename, CccorelibName) THEN CccorelibName
             ELSE CommonName
        ELSE UnknownName

\* lines 622-662, with "/" for os.path.sep; the file is read a second time
\* at line 642
_infer_module_from_path(doc) ==
    LET path_lower == Lower(doc.path)
        content == Lower(doc.text)
        parts == SplitOn(path_lower, "/")
        filename == parts[Len(parts)]
        python == <<"/", "p", "y", "t", "h", "o", "n", "/">>
    IN  IF Contains(path_lower, PyccName) /\ ~Contains(path_lower, CccorelibName)
        THEN PyccName
        ELSE IF Contains(path_lower, CccorelibName) /\ ~Contains(path_lower, PyccName)
        THEN CccorelibName
        ELSE IF Contains(path_lower, python \o PyccName) THEN PyccName
        ELSE IF Contains(path_lower, python \o CccorelibName) THEN CccorelibName
        ELSE IF Contains(content, PyccName) /\ ~Contains(content, CccorelibName)
        THEN PyccName
        ELSE IF Contains(content, CccorelibName) /\ ~Contains(content, PyccName)
        THEN CccorelibName
        ELSE IF Contains(content, PyccName) /\ Contains(content, CccorelibName)
        THEN IF Contains(filename, PyccName) THEN PyccName
             ELSE IF Contains(filename, CccorelibName) THEN CccorelibName
             ELSE CommonName
        ELSE UnknownName

\* the last part of a dotted name, lines 708-709 and 744-745
LastPart(full_name) ==
    LET parts == SplitOn(full_name, ".") IN parts[Len(parts)]

\* lines 726: [c.strip() for c in base_classes_str.split(',')]
StripEach(parts) == [i \in 1..Len(parts) |-> Strip(parts[i])]

\* lines 761-779 and 824-842: the parameters written in a directive
RECURSIVE DocParams(_)
DocParams(params) ==
    IF params = <<>> THEN <<>>
    ELSE LET param == Strip(Head(params))
             param_parts == SplitOn(param, ":")
         IN  (IF param = <<>> THEN <<>>
              ELSE IF Len(param_parts) = 2
              THEN <<[name |-> Strip(param_parts[1]), type |-> Strip(param_parts[2]),
                      required |-> TRUE]>>
              ELSE <<[name |-> param, required |-> TRUE]>>)
             \o DocParams(Tail(params))

\* lines 747-787 and 811-850: the record of a function or method after one
\* directive match
DocFunctionRecord(records, name, match, placeholder) ==
    LET present == IF name \in DOMAIN records THEN records[name]
                   ELSE [description |-> placeholder, parameters |-> <<>>,
                         returns |-> EmptyDict]
        described == SetKey(present, "description", Strip(match.description))
        with_params == IF match.params_str # <<>>
                       THEN SetKey(described, "parameters",
                                   DocParams(SplitOn(match.params_str, ",")))
                       ELSE described
    IN  SetKey(records, name,
               IF match.return_type # <<>>
               THEN SetKey(with_params, "returns", [type |-> Strip(match.return_type)])
               ELSE with_params)

\* lines 800-850
RECURSIVE DocMethods(_, _)
DocMethods(methods, matches) ==
    IF matches = <<>> THEN methods
    ELSE DocMethods(DocFunctionRecord(methods, Head(matches).name, Head(matches),
                                      MethodFromDocumentation),
                    Tail(matches))

\* lines 789-850; raised when re.finditer cannot compile the pattern
_extract_class_methods(module, class_name, method_matches) ==
    IF ~method_matches.ok THEN [raised |-> TRUE, value |-> module]
    ELSE [raised |-> FALSE,
          value |-> [module EXCEPT !.classes[class_name].methods =
                        DocMethods(@, method_matches.matches)]]

\* a class directive that only fills in: the description is kept when the
\* class was there, the bases are added to the ones it had
DocClassFillingIn(module, match) ==
    LET class_name == LastPart(match.full_class_name)
        present == IF class_name \in DOMAIN module.classes THEN module.classes[class_name]
                   ELSE [name |-> class_name, description |-> Strip(match.description),
                         methods |-> EmptyDict, properties |-> EmptyDict,
                         parent_classes |-> <<>>]
        based == [present EXCEPT !.parent_classes =
                     @ \o StripEach(SplitOn(match.base_classes_str, ","))]
    IN  _extract_class_methods([module EXCEPT !.classes = SetKey(@, class_name, based)],
                               class_name, match.methods)

\* lines 702-730: a module record after one class directive
DocClass(module, match) ==
    LET class_name == LastPart(match.full_class_name)
        present == IF class_name \in DOMAIN module.classes THEN module.classes[class_name]
                   ELSE [name |-> class_name, description |-> ClassFromDocumentation,
                         methods |-> EmptyDict, properties |-> EmptyDict,
                         parent_classes |-> <<>>]
        described == [present EXCEPT !.description = Strip(match.description)]
        based == IF match.base_classes_str # <<>>
                 THEN [described EXCEPT !.parent_classes =
                          StripEach(SplitOn(match.base_classes_str, ","))]
                 ELSE described
    IN  _extract_class_methods([module EXCEPT !.classes = SetKey(@, class_name, based)],
                               class_name, match.methods)

RECURSIVE DocClasses(_, _)
DocClasses(module, matches) ==
    IF matches = <<>> THEN [raised |-> FALSE, value |-> module]
    ELSE LET done == DocClass(module, Head(matches))
         IN  IF done.raised THEN done ELSE DocClasses(done.value, Tail(matches))

RECURSIVE DocFunctions(_, _)
DocFunctions(functions, matches) ==
    IF matches = <<>> THEN functions
    ELSE DocFunctions(DocFunctionRecord(functions, LastPart(Head(matches).name),
                                        Head(matches), FunctionFromDocumentation),
                      Tail(matches))

\* lines 693-787
_extract_doc_elements(module, doc) ==
    LET classes == DocClasses(module, doc.class_matches)
    IN  IF classes.raised THEN classes
        ELSE [raised |-> FALSE,
              value |-> [classes.value EXCEPT !.functions = DocFunctions(@, doc.func_matches)]]

\* lines 581-601: doc_content, the files that are read, grouped by module
RECURSIVE DocContent(_, _)
DocContent(doc_content, doc_files) ==
    IF doc_files = <<>> THEN doc_content
    ELSE LET doc == Head(doc_files)
             module_name == _infer_module_from_path(doc)
             docs == IF DictHas(doc_content, module_name)
                     THEN DictGet(doc_content, module_name).docs ELSE <<>>
         IN  DocContent(IF ~doc.readable THEN doc_content
                        ELSE DictSet(doc_content,
                                     [key |-> module_name, docs |-> Append(docs, doc)]),
                        Tail(doc_files))

\* lines 619-620
RECURSIVE DocElements(_, _)
DocElements(module, docs) ==
    IF docs = <<>> THEN [raised |-> FALSE, value |-> module]
    ELSE LET done == _extract_doc_elements(module, Head(docs))
         IN  IF done.raised THEN done ELSE DocElements(done.value, Tail(docs))

\* lines 604-620
RECURSIVE DocModules(_, _)
DocModules(modules, doc_content) ==
    IF doc_content = <<>> THEN [raised |-> FALSE, value |-> modules]
    ELSE LET module_name == Head(doc_content).key
             docs == Head(doc_content).docs
             present == IF module_name \in DOMAIN modules THEN modules[module_name]
                        ELSE NewModule(module_name, ModuleFromDocumentation)
             documented ==
                 SetKey(present, "documentation",
                        [i \in 1..Len(docs) |->
                            [path |-> docs[i].path, content |-> docs[i].text,
                             title |-> docs[i].title]])
             done == DocElements(documented, docs)
         IN  IF done.raised
             THEN [raised |-> TRUE, value |-> SetKey(modules, module_name, done.value)]
             ELSE DocModules(SetKey(modules, module_name, done.value), Tail(doc_content))

\* lines 563-620
_scan_doc_files(modules, doc_files) == DocModules(modules, DocContent(<<>>, doc_files))

FooDoc ==
    [path |-> <<"d", "o", "c", "s", "/", "p", "y", "c", "c", "/", "f", "o", "o", ".", "r", "s", "t">>,
     readable |-> TRUE,
     text |-> <<"F", "o", "o", "\n", "=", "=", "=", "\n", "\n", ".", ".", " ", "p", "y", ":", "c", "l", "a", "s", "s", ":", ":", " ", "p", "y", "c", "c", ".", "F", "o", "o", "(", "O", "t", "h", "e", "r", ",", " ", "B", "a", "s", "e", "2", " ", ")", "\n", "\n", " ", " ", " ", "D", "o", "c", "u", "m", "e", "n", "t", "e", "d", " ", "F", "o", "o", ".", "\n", "\n", ".", ".", " ", "p", "y", ":", "m", "e", "t", "h", "o", "d", ":", ":", " ", "p", "y", "c", "c", ".", "F", "o", "o", ".", "b", "a", "r", "(", "x", ":", " ", "i", "n", "t", ",", " ", "y", ")", " ", "-", ">", " ", "b", "o", "o", "l", "\n", "\n", " ", " ", " ", "D", "o", "c", "u", "m", "e", "n", "t", "e", "d", " ", "b", "a", "r", ".", "\n", "\n", ".", ".", " ", "p", "y", ":", "f", "u", "n", "c", "t", "i", "o", "n", ":", ":", " ", "p", "y", "c", "c", ".", "l", "o", "a", "d", "(", "p", "a", "t", "h", ")", "\n", "\n", " ", " ", " ", "D", "o", "c", "u", "m", "e", "n", "t", "e", "d", " ", "l", "o", "a", "d", ".", "\n">>,
     title |-> <<"F", "o", "o">>,
     class_matches |->
        <<[full_class_name |-> <<"p", "y", "c", "c", ".", "F", "o", "o">>, base_classes_str |-> <<"O", "t", "h", "e", "r", ",", " ", "B", "a", "s", "e", "2", " ">>, description |-> <<" ", " ", " ", "D", "o", "c", "u", "m", "e", "n", "t", "e", "d", " ", "F", "o", "o", ".", "\n", "\n", ".", ".", " ", "p", "y", ":", "m", "e", "t", "h", "o", "d", ":", ":", " ", "p", "y", "c", "c", ".", "F", "o", "o", ".", "b", "a", "r", "(", "x", ":", " ", "i", "n", "t", ",", " ", "y", ")", " ", "-", ">", " ", "b", "o", "o", "l", "\n", "\n", " ", " ", " ", "D", "o", "c", "u", "m", "e", "n", "t", "e", "d", " ", "b", "a", "r", ".", "\n", "\n", ".", ".", " ", "p", "y", ":", "f", "u", "n", "c", "t", "i", "o", "n", ":", ":", " ", "p", "y", "c", "c", ".", "l", "o", "a", "d", "(", "p", "a", "t", "h", ")", "\n", "\n", " ", " ", " ", "D", "o", "c", "u", "m", "e", "n", "t", "e", "d", " ", "l", "o", "a", "d", ".", "\n">>,
           methods |-> [ok |-> TRUE, matches |-> <<[name |-> <<"b", "a", "r">>, params_str |-> <<"x", ":", " ", "i", "n", "t", ",", " ", "y">>, return_type |-> <<"b", "o", "o", "l">>, description |-> <<" ", " ", " ", "D", "o", "c", "u", "m", "e", "n", "t", "e", "d", " ", "b", "a", "r", ".", "\n", "\n", ".", ".", " ", "p", "y", ":", "f", "u", "n", "c", "t", "i", "o", "n", ":", ":", " ", "p", "y", "c", "c", ".", "l", "o", "a", "d", "(", "p", "a", "t", "h", ")", "\n", "\n", " ", " ", " ", "D", "o", "c", "u", "m", "e", "n", "t", "e", "d", " ", "l", "o", "a", "d", ".", "\n">>]>>]]>>,
     func_matches |-> <<[name |-> <<"p", "y", "c", "c", ".", "l", "o", "a", "d">>, params_str |-> <<"p", "a", "t", "h">>, return_type |-> <<>>, description |-> <<" ", " ", " ", "D", "o", "c", "u", "m", "e", "n", "t", "e", "d", " ", "l", "o", "a", "d", ".", "\n">>]>>]

PlainFooDoc ==
    [path |-> <<"d", "o", "c", "s", "/", "p", "y", "c", "c", "/", "f", "o", "o", "2", ".", "m", "d">>,
     readable |-> TRUE,
     text |-> <<"#", " ", "F", "o", "o", " ", "a", "g", "a", "i", "n", "\n", ".", ".", " ", "p", "y", ":", "c", "l", "a", "s", "s", ":", ":", " ", "F", "o", "o", "\n", "\n", " ", " ", " ", "S", "e", "c", "o", "n", "d", " ", "F", "o", "o", ".", "\n">>,
     title |-> <<"F", "o", "o", " ", "a", "g", "a", "i", "n">>,
     class_matches |->
        <<[full_class_name |-> <<"F", "o", "o">>, base_classes_str |-> <<>>, description |-> <<" ", " ", " ", "S", "e", "c", "o", "n", "d", " ", "F", "o", "o", ".", "\n">>,
           methods |-> [ok |-> TRUE, matches |-> <<>>]]>>,
     func_matches |-> <<>>]

BadNameDoc ==
    [path |-> <<"d", "o", "c", "s", "/", "p", "y", "c", "c", "/", "b", "a", "d", ".", "r", "s", "t">>,
     readable |-> TRUE,
     text |-> <<".", ".", " ", "p", "y", ":", "c", "l", "a", "s", "s", ":", ":", " ", "F", "o", "o", ")", "\n", "\n", " ", " ", " ", "B", "r", "o", "k", "e", "n", " ", "n", "a", "m", "e", ".", "\n">>,
     title |-> <<"B", "r", "o", "k", "e", "n", " ", "n", "a", "m", "e", ".">>,
     class_matches |->
        <<[full_class_name |-> <<"F", "o", "o", ")">>, base_classes_str |-> <<>>, description |-> <<" ", " ", " ", "B", "r", "o", "k", "e", "n", " ", "n", "a", "m", "e", ".", "\n">>,
           methods |-> [ok |-> FALSE, matches |-> <<>>]]>>,
     func_matches |-> <<>>]

CloudDoc ==
    [path |-> <<"d", "o", "c", "s", "/", "a", "p", "i", ".", "r", "s", "t">>,
     readable |-> TRUE,
     text |-> <<".", ".", " ", "p", "y", ":", "c", "l", "a", "s", "s", ":", ":", " ", "C", "l", "o", "u", "d", "(", ")", "\n", "\n", " ", " ", " ", "D", "o", "c", "u", "m", "e", "n", "t", "e", "d", " ", "C", "l", "o", "u", "d", " ", "o", "f", " ", "c", "c", "c", "o", "r", "e", "l", "i", "b", ".", "\n", "\n", ".", ".", " ", "p", "y", ":", "f", "u", "n", "c", "t", "i", "o", "n", ":", ":", " ", "d", "i", "s", "t", "(", " ", ")", " ", "-", ">", " ", "f", "l", "o", "a", "t", "\n", "\n", " ", " ", " ", "D", "i", "s", "t", "a", "n", "c", "e", ".", "\n">>,
     title |-> <<"D", "o", "c", "u", "m", "e", "n", "t", "e", "d", " ", "C", "l", "o", "u", "d", " ", "o", "f", " ", "c", "c", "c", "o", "r", "e", "l", "i", "b", ".">>,
     class_matches |->
        <<[full_class_name |-> <<"C", "l", "o", "u", "d">>, base_classes_str |-> <<>>, description |-> <<" ", " ", " ", "D", "o", "c", "u", "m", "e", "n", "t", "e", "d", " ", "C", "l", "o", "u", "d", " ", "o", "f", " ", "c", "c", "c", "o", "r", "e", "l", "i", "b", ".", "\n", "\n", ".", ".", " ", "p", "y", ":", "f", "u", "n", "c", "t", "i", "o", "n", ":", ":", " ", "d", "i", "s", "t", "(", " ", ")", " ", "-", ">", " ", "f", "l", "o", "a", "t", "\n", "\n", " ", " ", " ", "D", "i", "s", "t", "a", "n", "c", "e", ".", "\n">>,
           methods |-> [ok |-> TRUE, matches |-> <<>>]]>>,
     func_matches |-> <<[name |-> <<"d", "i", "s", "t">>, params_str |-> <<" ">>, return_type |-> <<"f", "l", "o", "a", "t">>, description |-> <<" ", " ", " ", "D", "i", "s", "t", "a", "n", "c", "e", ".", "\n">>]>>]

UnreadableDoc ==
    [path |-> <<"d", "o", "c", "s", "/", "x", ".", "r", "s", "t">>,
     readable |-> FALSE,
     text |-> <<>>,
     title |-> <<"U", "n", "t", "i", "t", "l", "e", "d">>,
     class_matches |->
        <<>>,
     func_matches |-> <<>>]

(***************************************************************************)
(* CloudCompareAPIScan._save_results (src/ccAPIScanner.py:919-1021).       *)
(* A Python value is a leaf PyConst(type, str(value)), a leaf whose str()  *)
(* raises, or a container: a dict (a function from its keys, which in the  *)
(* scanner's document are always strings), a list, a tuple or a set (the   *)
(* items in iteration order).  What json writes is a JSON value.           *)
(***************************************************************************)
PyStr(text) == PyConst("str", text)
PyInt(n) == PyConst("int", Decimal(n))
PyNone == PyConst("NoneType", <<"N", "o", "n", "e">>)
PyTrue == PyConst("bool", <<"T", "r", "u", "e">>)
PyFalse == PyConst("bool", <<"F", "a", "l", "s", "e">>)
\* an object whose __str__ raises; name is type(obj).__name__
Unprintable(type, name) == [type |-> type, str |-> <<>>, raises |-> TRUE, name |-> name]
PyDict(items) == [py |-> "dict", items |-> items]
PyList(items) == [py |-> "list", items |-> items]
PyTuple(items) == [py |-> "tuple", items |-> items]
PySet(items, text) == [py |-> "set", items |-> items, str |-> text]

IsContainer(obj) == "py" \in DOMAIN obj
\* isinstance(obj, (str, int, float, bool)) or obj is None
IsPrimitive(obj) == obj.type \in {"str", "int", "float", "bool", "NoneType"}
StrRaises(obj) == "raises" \in DOMAIN obj

EllipsisText == <<"'", ".", ".", ".", "'">>
NonSerializable(name) ==
    <<"<", "n", "o", "n", "-", "s", "e", "r", "i", "a", "l", "i", "z", "a", "b", "l", "e",
      ":", " ">> \o name \o <<">">>

\* lines 1016-1021 and 963-967: str(obj), or the placeholder when str() raises
StrOrPlaceholder(obj) ==
    IF StrRaises(obj) THEN PyStr(NonSerializable(obj.name)) ELSE PyStr(obj.str)

\* the sanitizing pass without the ellipsis rule of lines 1011-1012
RECURSIVE SanitizeWithoutEllipsisRule(_)
SanitizeWithoutEllipsisRule(obj) ==
    IF IsContainer(obj)
    THEN IF obj.py = "dict"
         THEN PyDict([k \in DOMAIN obj.items |-> SanitizeWithoutEllipsisRule(obj.items[k])])
         ELSE PyList([i \in 1..Len(obj.items) |-> SanitizeWithoutEllipsisRule(obj.items[i])])
    ELSE IF IsPrimitive(obj) THEN obj
    ELSE StrOrPlaceholder(obj)

\* lines 1000-1021
RECURSIVE _sanitize_for_json(_)
_sanitize_for_json(obj) ==
    IF IsContainer(obj)
    THEN IF obj.py = "dict"
         THEN PyDict([k \in DOMAIN obj.items |-> _sanitize_for_json(obj.items[k])])
         ELSE PyList([i \in 1..Len(obj.items) |-> _sanitize_for_json(obj.items[i])])
    ELSE IF obj = Ellipsis THEN PyStr(EllipsisText)
    ELSE IF IsPrimitive(obj) THEN obj
    ELSE StrOrPlaceholder(obj)

\* lines 957-967: CustomJSONEncoder.default
default(obj) ==
    IF ~IsContainer(obj) /\ obj = Ellipsis THEN PyStr(EllipsisText)
    ELSE StrOrPlaceholder(obj)

\* JSON values
JsonObject(members) == [json |-> "object", members |-> members]
JsonArray(elements) == [json |-> "array", elements |-> elements]
JsonString(text) == [json |-> "string", text |-> text]
JsonNumber(text) == [json |-> "number", text |-> text]
JsonLiteral(obj) ==
    IF obj.type = "NoneType" THEN [json |-> "null"]
    ELSE IF obj.str = PyTrue.str THEN [json |-> "true"] ELSE [json |-> "false"]

Encoded(value) == [raised |-> FALSE, value |-> value]
TypeError == [raised |-> TRUE, value |-> <<>>]

\* an object or an array of encoded children; one child's TypeError is the whole's
EncodedObject(children) ==
    IF \E k \in DOMAIN children : children[k].raised THEN TypeError
    ELSE Encoded(JsonObject([k \in DOMAIN children |-> children[k].value]))
EncodedArray(children) ==
    IF \E i \in DOMAIN children : children[i].raised THEN TypeError
    ELSE Encoded(JsonArray([i \in DOMAIN children |-> children[i].value]))

\* json.dump(obj, f, indent=2, cls=...): the JSON value written, or TypeError
\* for a value the encoder has no rule for when custom is FALSE
RECURSIVE JsonEncode(_, _)
JsonEncode(obj, custom) ==
    IF IsContainer(obj) /\ obj.py = "dict"
    THEN EncodedObject([k \in DOMAIN obj.items |-> JsonEncode(obj.items[k], custom)])
    ELSE IF IsContainer(obj) /\ obj.py \in {"list", "tuple"}
    THEN EncodedArray([i \in 1..Len(obj.items) |-> JsonEncode(obj.items[i], custom)])
    ELSE IF ~IsContainer(obj) /\ obj.type = "str" THEN Encoded(JsonString(obj.str))
    ELSE IF ~IsContainer(obj) /\ obj.type \in {"int", "float"}
    THEN Encoded(JsonNumber(obj.str))
    ELSE IF ~IsContainer(obj) /\ obj.type \in {"bool", "NoneType"}
    THEN Encoded(JsonLiteral(obj))
    ELSE IF custom THEN JsonEncode(default(obj), custom)
    ELSE TypeError

\* the output file: absent, holding a complete JSON text, or opened for
\* writing and left with an incomplete (possibly empty) text
NoFile == [state |-> "absent"]
Incomplete == [state |-> "incomplete"]
JsonFile(value) == [state |-> "json", value |-> value]

\* with open(self.output_file, 'w') as f: <write the encoded value>; outcome
\* says whether open() or a write raises OSError
Written(file, encoded, outcome) ==
    IF outcome = "open" THEN [ok |-> FALSE, file |-> file]
    ELSE IF encoded.raised \/ outcome = "write" THEN [ok |-> FALSE, file |-> Incomplete]
    ELSE [ok |-> TRUE, file |-> JsonFile(encoded.value)]

\* lines 992-997
MetadataOnly(w) == [tier |-> IF w.ok THEN 3 ELSE 0, output_file |-> w.file]

\* lines 980-997
AlternativeApproach(w, metadata, outcomes) ==
    IF w.ok THEN [tier |-> 2, output_file |-> w.file]
    ELSE MetadataOnly(Written(w.file, JsonEncode(PyDict("metadata" :> metadata), FALSE),
                              outcomes[3]))

\* lines 972-997
Saved(w, sanitized_data, metadata, outcomes) ==
    IF w.ok THEN [tier |-> 1, output_file |-> w.file]
    ELSE AlternativeApproach(Written(w.file, JsonEncode(sanitized_data, TRUE), outcomes[2]),
                             metadata, outcomes)

\* lines 972-997, given the sanitized data of line 970
SaveTiers(sanitized_data, metadata, file, outcomes) ==
    Saved(Written(file, JsonEncode(sanitized_data, TRUE), outcomes[1]),
          sanitized_data, metadata, outcomes)

RECURSIVE SumOver(_, _)
SumOver(f, keys) ==
    IF keys = {} THEN 0
    ELSE LET k == CHOOSE k \in keys : TRUE IN f[k] + SumOver(f, keys \ {k})

\* len(module.get(key, {}))
LenOf(module, key) ==
    IF key \in DOMAIN module.items THEN Cardinality(DOMAIN module.items[key].items) ELSE 0

Size(container) ==
    IF container.py = "dict" THEN Cardinality(DOMAIN container.items)
    ELSE Len(container.items)

\* lines 942-948
Statistics(data) ==
    LET modules == data.items["modules"].items
    IN  PyDict([total_modules |-> PyInt(Cardinality(DOMAIN modules)),
                total_classes |->
                    PyInt(SumOver([m \in DOMAIN modules |-> LenOf(modules[m], "classes")],
                                  DOMAIN modules)),
                total_functions |->
                    PyInt(SumOver([m \in DOMAIN modules |-> LenOf(modules[m], "functions")],
                                  DOMAIN modules)),
                total_example_scripts |-> PyInt(Size(data.items["example_scripts"])),
                total_workflows |-> PyInt(Size(data.items["workflows"]))])

\* lines 930-950
Metadata(scanner, data, platform) ==
    PyDict([scan_date |-> platform.now,
            version |-> PyStr(<<"1", ".", "0">>),
            hostname |-> platform.hostname,
            platform |-> platform.platform,
            python_version |-> platform.python_version,
            modules_found |-> PyList(scanner.imported_modules),
            doc_dirs_scanned |-> scanner.doc_dirs,
            stub_files_scanned |-> scanner.stub_files,
            example_dirs_scanned |-> scanner.examples_dirs,
            statistics |-> Statistics(data)])

WithMetadata(data, metadata) ==
    PyDict(("metadata" :> metadata) @@ data.items)

\* lines 953-997: os.makedirs, the sanitizing pass, then the three tiers
MakeAndWrite(data, file, io) ==
    IF ~io.makedirs
    THEN [raised |-> TRUE, api_data |-> data, tier |-> 0, output_file |-> file]
    ELSE [raised |-> FALSE, api_data |-> data]
             @@ SaveTiers(_sanitize_for_json(data), data.items["metadata"],
                          file, io.tiers)

\* lines 919-998
_save_results(scanner, data, file, platform, io) ==
    MakeAndWrite(WithMetadata(data, Metadata(scanner, data, platform)),
                 file, io)

\* documents the scanner may hold when _save_results runs: the constructor's,
\* one from a stub file with an ellipsis default, and one holding values of
\* every kind the sanitizer distinguishes
InitialDocument ==
    PyDict(("modules" :> PyDict(<<>>)) @@ ("instance_methods" :> PyDict(<<>>)) @@ ("example_scripts" :> PyDict(<<>>)) @@ ("workflows" :> PyDict(<<>>)) @@ ("metadata" :> PyDict(("scan_date" :> PyStr(<<>>)) @@ ("version" :> PyStr(<<"1", ".", "0">>)))))

FooDocument ==
    PyDict(("modules" :> PyDict(("pycc" :> PyDict(("description" :> PyStr(<<"M", "o", "d", "u", "l", "e", " ", "p", "y", "c", "c", " ", "f", "r", "o", "m", " ", "s", "t", "u", "b", " ", "f", "i", "l", "e">>)) @@ ("functions" :> PyDict(<<>>)) @@ ("classes" :> PyDict(("Foo" :> PyDict(("description" :> PyStr(<<"C", "l", "a", "s", "s", " ", "F", "o", "o", " ", "f", "r", "o", "m", " ", "s", "t", "u", "b", " ", "f", "i", "l", "e">>)) @@ ("parent_classes" :> PyList(<<PyStr(<<"B", "a", "r">>)>>)) @@ ("methods" :> PyDict(("__init__" :> PyDict(("description" :> PyStr(<<"M", "e", "t", "h", "o", "d", " ", "_", "_", "i", "n", "i", "t", "_", "_", " ", "f", "r", "o", "m", " ", "s", "t", "u", "b", " ", "f", "i", "l", "e">>)) @@ ("parameters" :> PyList(<<PyDict(("name" :> PyStr(<<"n">>)) @@ ("type" :> PyStr(<<"u", "n", "k", "n", "o", "w", "n">>)) @@ ("required" :> PyFalse) @@ ("default" :> Ellipsis))>>)) @@ ("returns" :> PyDict(("type" :> PyStr(<<"u", "n", "k", "n", "o", "w", "n">>)))))))))))) @@ ("constants" :> PyDict(<<>>)) @@ ("enums" :> PyDict(<<>>)))))) @@ ("instance_methods" :> PyDict(<<>>)) @@ ("example_scripts" :> PyDict(<<>>)) @@ ("workflows" :> PyDict(<<>>)) @@ ("metadata" :> PyDict(("scan_date" :> PyStr(<<>>)) @@ ("version" :> PyStr(<<"1", ".", "0">>)))))

MixedDocument ==
    PyDict(("modules" :> PyDict(("m" :> PyDict(("functions" :> PyDict(("f" :> PyDict(("parameters" :> PyTuple(<<PyDict(("default" :> PyConst("bytes", <<"b", "'", "x", "'">>))), Ellipsis>>)) @@ ("tags" :> PySet(<<Ellipsis>>, <<"{", "E", "l", "l", "i", "p", "s", "i", "s", "}">>)) @@ ("handle" :> Unprintable("Opaque", <<"O", "p", "a", "q", "u", "e">>)) @@ ("where" :> PyConst("PurePosixPath", <<"a", "/", "b">>)))))) @@ ("classes" :> PyDict(<<>>)) @@ ("constants" :> PyDict(("PI" :> PyConst("float", <<"3", ".", "5">>)) @@ ("ON" :> PyTrue) @@ ("NIL" :> PyNone))) @@ ("enums" :> PyDict(<<>>)))) @@ ("n" :> PyDict(("functions" :> PyDict(<<>>)) @@ ("classes" :> PyDict(("C" :> PyDict(<<>>)) @@ ("D" :> PyDict(<<>>)))))))) @@ ("instance_methods" :> PyDict(<<>>)) @@ ("example_scripts" :> PyDict(<<>>)) @@ ("workflows" :> PyDict(<<>>)) @@ ("metadata" :> PyDict(("scan_date" :> PyStr(<<>>)) @@ ("version" :> PyStr(<<"1", ".", "0">>)))))

\* what the constructor was given and what was imported (lines 18-42)
PlainScanner ==
    [imported_modules |-> <<>>, examples_dirs |-> PyList(<<>>), stub_files |-> PyList(<<PyStr(<<"s", "t", "u", "b", "s", "/", "p", "y", "c", "c", ".", "p", "y", "i">>)>>), doc_dirs |-> PyList(<<PyStr(<<"d", "o", "c", "s">>)>>)]

PathScanner ==
    [imported_modules |-> <<PyStr(<<"p", "y", "c", "c">>)>>, examples_dirs |-> PyTuple(<<PyConst("PurePosixPath", <<"t", "e", "s", "t", "s">>)>>), stub_files |-> PyList(<<>>), doc_dirs |-> PyList(<<>>)]

SetScanner ==
    [imported_modules |-> <<PyStr(<<"p", "y", "c", "c">>), PyStr(<<"c", "c", "c", "o", "r", "e", "l", "i", "b">>)>>, examples_dirs |-> PyList(<<>>), stub_files |-> PyList(<<>>), doc_dirs |-> PySet(<<PyStr(<<"d", "o", "c", "s">>)>>, <<"{", "'", "d", "o", "c", "s", "'", "}">>)]

EllipsisScanner ==
    [imported_modules |-> <<>>, examples_dirs |-> PyList(<<>>), stub_files |-> PyList(<<Ellipsis>>), doc_dirs |-> PyList(<<>>)]

(***************************************************************************)
(* Specification SpecSave: a scanner holding one of the documents, built    *)
(* with one of the constructor argument sets, runs _save_results; the      *)
(* directory creation and each tier's open and write succeed or fail.      *)
(***************************************************************************)
Documents == {InitialDocument, FooDocument, MixedDocument}
Scanners == {PlainScanner, PathScanner, SetScanner, EllipsisScanner}
\* the file a previous run left
EarlierFile == JsonFile(JsonObject("metadata" :> JsonObject(<<>>)))
Platform ==
    [now |-> PyStr(<<"2", "0", "2", "5", "-", "0", "1", "-", "0", "1", "T", "0", "0",
                     ":", "0", "0", ":", "0", "0">>),
     hostname |-> PyStr(<<"h", "o", "s", "t">>),
     platform |-> PyStr(<<"L", "i", "n", "u", "x">>),
     python_version |-> PyStr(<<"3", ".", "1", "1", ".", "0">>)]
Outcomes == {"ok", "open", "write"}
IOs == [makedirs : BOOLEAN, tiers : [1..3 -> Outcomes]]

InitSave ==
    /\ api_data \in Documents
    /\ output_file \in {NoFile, EarlierFile}
    /\ \E scanner \in Scanners : last_call = [op |-> "__init__", scanner |-> scanner]
    /\ GuiUnused /\ AiUnused /\ TextUnused

SaveResultsReturns(r, io) ==
    /\ api_data' = r.api_data
    /\ output_file' = r.output_file
    /\ last_call' = [op |-> "_save_results", scanner |-> last_call.scanner, io |-> io,
                     before |-> api_data, raised |-> r.raised, tier |-> r.tier]

SaveResults(io) ==
    /\ last_call.op = "__init__"
    /\ SaveResultsReturns(_save_results(last_call.scanner, api_data, output_file,
                                        Platform, io), io)
    /\ UNCHANGED <<guiVars, aiVars, textVars>>

NextSave == \E io \in IOs : SaveResults(io)

SpecSave == InitSave /\ [][NextSave]_vars

\* obj holds an ellipsis somewhere as a value
RECURSIVE HoldsEllipsis(_)
HoldsEllipsis(obj) ==
    IF ~IsContainer(obj) THEN obj = Ellipsis
    ELSE IF obj.py = "dict" THEN \E k \in DOMAIN obj.items : HoldsEllipsis(obj.items[k])
    ELSE \E i \in 1..Len(obj.items) : HoldsEllipsis(obj.items[i])

\* the sanitizer and the encoder's default give the same text for every value
\* anywhere in obj that is neither a container nor a primitive
RECURSIVE LeavesAgree(_)
LeavesAgree(obj) ==
    IF ~IsContainer(obj) THEN IsPrimitive(obj) \/ _sanitize_for_json(obj) = default(obj)
    ELSE IF obj.py = "dict" THEN \A k \in DOMAIN obj.items : LeavesAgree(obj.items[k])
    ELSE \A i \in 1..Len(obj.items) : LeavesAgree(obj.items[i])

\* the JSON value of a primitive
PlainJson(obj) ==
    IF obj.type = "str" THEN JsonString(obj.str)
    ELSE IF obj.type \in {"int", "float"} THEN JsonNumber(obj.str)
    ELSE JsonLiteral(obj)

\* json holds obj with every mapping's keys kept, every sequence's length
\* kept, every primitive as itself and every ellipsis as the string '...'
RECURSIVE WrittenAs(_, _)
WrittenAs(obj, json) ==
    IF IsContainer(obj) /\ obj.py = "dict"
    THEN /\ json.json = "object"
         /\ DOMAIN json.members = DOMAIN obj.items
         /\ \A k \in DOMAIN obj.items : WrittenAs(obj.items[k], json.members[k])
    ELSE IF IsContainer(obj)
    THEN /\ json.json = "array"
         /\ Len(json.elements) = Len(obj.items)
         /\ \A i \in 1..Len(obj.items) : WrittenAs(obj.items[i], json.elements[i])
    ELSE IF obj = Ellipsis THEN json = JsonString(EllipsisText)
    ELSE IF IsPrimitive(obj) THEN json = PlainJson(obj)
    ELSE json.json = "string"

\* C16: when the directory can be made and the file opened and written, saving
\* a document raises nothing and the file holds the whole document: every
\* ellipsis value as the string '...' (quote characters included), and every
\* mapping with the keys it had and its primitive values as they were
C16_EllipsisWrittenAsQuotedDots ==
    (last_call.op = "_save_results" /\ last_call.io.makedirs /\ last_call.io.tiers[1] = "ok")
        => /\ ~last_call.raised
           /\ last_call.tier = 1
           /\ output_file.state = "json"
           /\ WrittenAs(api_data, output_file.value)

C16_Witness ==
    /\ last_call.op = "_save_results" /\ last_call.io.makedirs /\ last_call.io.tiers[1] = "ok"
    /\ last_call.before = FooDocument
    /\ HoldsEllipsis(api_data)
    /\ LET n == output_file.value.members["modules"].members["pycc"].members["classes"]
                    .members["Foo"].members["methods"].members["__init__"]
                    .members["parameters"].elements[1]
       IN  /\ n.members["default"] = JsonString(EllipsisText)
           /\ n.members["name"] = JsonString(<<"n">>)
           /\ DOMAIN n.members = {"name", "type", "required", "default"}

\* the three degraded files a reader can tell apart from the full document
MetadataBlock(data) == PyDict("metadata" :> data.items["metadata"])

\* C17 (as stated): _save_results never raises and leaves the output file
\* holding either the full document or only the metadata block
C17_SaveNeverRaisesFileHoldsDocumentOrMetadata ==
    last_call.op = "_save_results"
        => /\ ~last_call.raised
           /\ \/ output_file = JsonFile(JsonEncode(_sanitize_for_json(api_data), TRUE).value)
              \/ /\ ~JsonEncode(MetadataBlock(api_data), FALSE).raised
                 /\ output_file = JsonFile(JsonEncode(MetadataBlock(api_data), FALSE).value)

NameKeyed == {"modules", "classes", "methods", "functions", "constants", "enums", "properties"}
KeyedLists == {"example_scripts", "workflows"}
Records == {"returns", "stub_file", "instance_methods", "metadata"}
RecordLists == {"parameters", "documentation"}
StringLists == {"parent_classes", "imports", "key_functions"}

RECURSIVE Enumerated(_)
Enumerated(S) ==
    IF S = {} THEN <<>>
    ELSE LET x == CHOOSE x \in S : TRUE IN <<x>> \o Enumerated(S \ {x})

Without(r, field) == [k \in DOMAIN r \ {field} |-> r[k]]

RECURSIVE PyValue(_, _), PyRecord(_)
PyValue(field, v) ==
    IF field \in {"default", "value"} THEN v
    ELSE IF field = "required" THEN (IF v THEN PyTrue ELSE PyFalse)
    ELSE IF field \in NameKeyed THEN PyDict([k \in DOMAIN v |-> PyRecord(v[k])])
    ELSE IF field \in KeyedLists
    THEN PyDict([k \in {v[i].key : i \in DOMAIN v} |->
                    PyRecord(Without(v[CHOOSE i \in DOMAIN v : v[i].key = k], "key"))])
    ELSE IF field = "function_calls"
    THEN PyDict([k \in {v[i].key : i \in DOMAIN v} |->
                    PyInt(v[CHOOSE i \in DOMAIN v : v[i].key = k].count)])
    ELSE IF field \in Records THEN PyRecord(v)
    ELSE IF field \in RecordLists THEN PyList([i \in DOMAIN v |-> PyRecord(v[i])])
    ELSE IF field \in StringLists THEN PyList([i \in DOMAIN v |-> PyStr(v[i])])
    ELSE IF field = "natural_language_triggers"
    THEN PyList([i \in 1..Cardinality(v) |-> PyStr(Enumerated(v)[i])])
    ELSE PyStr(v)

PyRecord(r) == PyDict([k \in DOMAIN r |-> PyValue(k, r[k])])

(***************************************************************************)
(* Specification SpecScanAll: scan_all (lines 43-72) on a scanner built as *)
(* in __main__, stage by stage.  What can be imported, the example files,  *)
(* stub files (at most MaxStubFiles) and documentation files (at most      *)
(* MaxDocFiles) found, and the outcomes of the writes, are chosen as each  *)
(* stage runs.  A stage that raises ends scan_all.  After the save,        *)
(* api_data holds the document as the Python value that was saved.         *)
(***************************************************************************)
MaxStubFiles == 1
MaxDocFiles == 2

Lives == {NotImportable, LiveBoth, LivePyccOnly, LiveBadClass}
StubFiles == {FooStub, ToolsStub, BrokenStub, UnreadableStub}
DocFiles == {FooDoc, PlainFooDoc, BadNameDoc, CloudDoc, UnreadableDoc}

RECURSIVE DistinctLists(_, _)
DistinctLists(S, n) ==
    IF n = 0 THEN {<<>>}
    ELSE DistinctLists(S, n - 1)
             \cup {Append(l, f) : l \in {m \in DistinctLists(S, n - 1) : Len(m) = n - 1},
                                  f \in S}
\* as DistinctLists gives them, a file may come twice: keep the lists without
DistinctFileLists(S, n) == {l \in DistinctLists(S, n) : Distinct(l)}

\* the example directory holds nothing, one script, or a script that does not parse
ExampleDirectories == {<<>>, <<MakeRampFile>>, <<BrokenFile, TestFooFile>>}

\* the outcomes of the tiers that are attempted: a tier runs only when the
\* previous one failed
IOsAttempted ==
    {io \in IOs : /\ (~io.makedirs => io.tiers = [t \in 1..3 |-> "ok"])
                  /\ \A t \in 1..2 : io.tiers[t] = "ok" => io.tiers[t + 1] = "ok"}

MainScanner ==
    [imported_modules |-> <<>>,
     examples_dirs |-> PyList(<<PyStr(<<"e", "x", "a", "m", "p", "l", "e", "s">>)>>),
     stub_files |-> PyList(<<PyStr(<<"s", "t", "u", "b", "s">>)>>),
     doc_dirs |-> PyList(<<PyStr(<<"d", "o", "c", "s">>)>>)]

InitScanAll ==
    /\ api_data = InitialApiData
    /\ output_file \in {NoFile, EarlierFile}
    /\ last_call = [op |-> "__init__", scanner |-> MainScanner]
    /\ GuiUnused /\ AiUnused /\ TextUnused

\* _try_import_cc_modules, lines 74-90
Imported(live) ==
    (IF live.has_pycc THEN <<PyStr(PyccName)>> ELSE <<>>)
        \o (IF live.has_cccorelib THEN <<PyStr(CccorelibName)>> ELSE <<>>)

\* lines 47-51
TryImportCcModules(live) ==
    /\ last_call.op = "__init__"
    /\ api_data' = [api_data EXCEPT !.metadata.scan_date = Platform.now.str]
    /\ last_call' = [op |-> "_try_import_cc_modules", live |-> live,
                     scanner |-> [last_call.scanner EXCEPT
                                     !.imported_modules = Imported(live)]]
    /\ UNCHANGED <<guiVars, aiVars, textVars, output_file>>

\* a stage that returned, or raised out of scan_all
StageReturns(op, r, files) ==
    /\ api_data' = r.value
    /\ last_call' = [op |-> IF r.raised THEN "raised" ELSE op, stage |-> op,
                     live |-> last_call.live, scanner |-> last_call.scanner,
                     files |-> files, before |-> api_data]
    /\ UNCHANGED <<guiVars, aiVars, textVars, output_file>>

Returned(value) == [raised |-> FALSE, value |-> value]

\* lines 53-55
ScanApiStructure ==
    /\ last_call.op = "_try_import_cc_modules"
    /\ StageReturns("_scan_api_structure",
                    IF last_call.live.has_pycc
                    THEN _scan_api_structure(api_data, last_call.live)
                    ELSE Returned(api_data), <<>>)

\* line 58
ScanExamples(example_files) ==
    /\ last_call.op = "_scan_api_structure"
    /\ StageReturns("_scan_example_scripts",
                    Returned([api_data EXCEPT !.example_scripts =
                                 _scan_example_scripts(@, example_files)]),
                    example_files)

\* line 61
ScanStubFiles(stub_files) ==
    /\ last_call.op = "_scan_example_scripts"
    /\ StageReturns("_scan_stub_files",
                    Returned([api_data EXCEPT !.modules = _scan_stub_files(@, stub_files)]),
                    stub_files)

DocsScanned(data, r) == [raised |-> r.raised, value |-> [data EXCEPT !.modules = r.value]]

\* line 64
ScanDocFiles(doc_files) ==
    /\ last_call.op = "_scan_stub_files"
    /\ StageReturns("_scan_doc_files",
                    DocsScanned(api_data, _scan_doc_files(api_data.modules, doc_files)),
                    doc_files)

\* line 67
Workflows ==
    /\ last_call.op = "_scan_doc_files"
    /\ StageReturns("_extract_workflows",
                    Returned([api_data EXCEPT !.workflows =
                                 _extract_workflows(@, api_data.example_scripts)]),
                    <<>>)

SaveReturns(r, io) ==
    /\ api_data' = r.api_data
    /\ output_file' = r.output_file
    /\ last_call' = [op |-> IF r.raised THEN "raised" ELSE "return",
                     stage |-> "_save_results", live |-> last_call.live,
                     scanner |-> last_call.scanner, io |-> io, tier |-> r.tier,
                     before |-> api_data]

\* lines 70-72
SaveAndReturn(io) ==
    /\ last_call.op = "_extract_workflows"
    /\ SaveReturns(_save_results(last_call.scanner, PyRecord(api_data), output_file,
                                 Platform, io), io)
    /\ UNCHANGED <<guiVars, aiVars, textVars>>

NextScanAll ==
    \/ \E live \in Lives : TryImportCcModules(live)
    \/ ScanApiStructure
    \/ \E example_files \in ExampleDirectories : ScanExamples(example_files)
    \/ \E stub_files \in DistinctFileLists(StubFiles, MaxStubFiles) : ScanStubFiles(stub_files)
    \/ \E doc_files \in DistinctFileLists(DocFiles, MaxDocFiles) : ScanDocFiles(doc_files)
    \/ Workflows
    \/ \E io \in IOsAttempted : SaveAndReturn(io)

SpecScanAll == InitScanAll /\ [][NextScanAll]_vars

\* the stage scan_all has just completed, or "" before the first one
Stage == IF "stage" \in DOMAIN last_call THEN last_call.stage ELSE ""
\* the modules of the document; after the save, as they were saved
ScannedModules ==
    IF Stage = "_save_results" THEN last_call.before.modules ELSE api_data.modules

\* the class directives for class_name among the files of one module that
\* were read, in the order they are processed
RECURSIVE Directives(_, _, _)
Directives(doc_files, module_name, class_name) ==
    IF doc_files = <<>> THEN <<>>
    ELSE LET doc == Head(doc_files)
         IN  (IF doc.readable /\ _infer_module_from_path(doc) = module_name
              THEN SelectSeq(doc.class_matches,
                             LAMBDA m : LastPart(m.full_class_name) = class_name)
              ELSE <<>>)
             \o Directives(Tail(doc_files), module_name, class_name)

WithBases(directives) == SelectSeq(directives, LAMBDA m : m.base_classes_str # <<>>)

\* C12: after a documentation scan that returns, a class that was in its
\* module before the scan and has a class directive carries the description
\* of its last directive, and, when a directive names base classes, exactly
\* the stripped, comma-separated names of the last such directive as
\* parent_classes
C12_DocumentationDescriptionAndBasesWin ==
    last_call.op = "_scan_doc_files" =>
        \A module_name \in DOMAIN last_call.before.modules :
            \A class_name \in DOMAIN last_call.before.modules[module_name].classes :
                LET directives == Directives(last_call.files, module_name, class_name)
                    class == api_data.modules[module_name].classes[class_name]
                IN  directives # <<>> =>
                        /\ class.description
                               = Strip(directives[Len(directives)].description)
                        /\ WithBases(directives) # <<>> =>
                               class.parent_classes
                                   = StripEach(SplitOn(
                                         WithBases(directives)[Len(WithBases(directives))]
                                             .base_classes_str, ","))

C12_Witness ==
    /\ last_call.op = "_scan_doc_files"
    /\ last_call.files = <<FooDoc>>
    /\ PyccName \in DOMAIN last_call.before.modules
    /\ <<"F", "o", "o">> \in DOMAIN last_call.before.modules[PyccName].classes
    /\ LET before == last_call.before.modules[PyccName].classes[<<"F", "o", "o">>]
           after == api_data.modules[PyccName].classes[<<"F", "o", "o">>]
       IN  /\ before.parent_classes = <<<<"B", "a", "r">>>>
           /\ after.parent_classes = <<<<"O", "t", "h", "e", "r">>, <<"B", "a", "s", "e", "2">>>>
           /\ before.description # after.description
           /\ after.description = Strip(FooDoc.class_matches[1].description)

\* C13 (as stated): the stub scan leaves every description that a class, a
\* method or a function record had before it as it was
C13_StubScanKeepsPresentDescriptions ==
    last_call.op = "_scan_stub_files" =>
        \A module_name \in DOMAIN last_call.before.modules :
            LET before == last_call.before.modules[module_name]
                after == api_data.modules[module_name]
            IN  /\ \A f \in DOMAIN before.functions :
                      after.functions[f].description = before.functions[f].description
                /\ \A c \in DOMAIN before.classes :
                      /\ after.classes[c].description = before.classes[c].description
                      /\ \A m \in DOMAIN before.classes[c].methods :
                            after.classes[c].methods[m].description
                                = before.classes[c].methods[m].description

\* C14: every module record of the document, at every stage of scan_all and
\* whichever scan made it, has the keys functions, classes, constants and enums
C14_ModuleRecordsHaveTheFourMappings ==
    \A module_name \in DOMAIN ScannedModules :
        {"functions", "classes", "constants", "enums"} \subseteq DOMAIN ScannedModules[module_name]

\* a module without classes and functions made by the stub scan, then one
\* made by the documentation scan
C14_Witness ==
    /\ last_call.op = "_scan_doc_files"
    /\ ~last_call.live.has_pycc
    /\ last_call.files = <<UnreadableDoc, CloudDoc>>
    /\ DOMAIN last_call.before.modules = {PyccName}
    /\ last_call.before.modules[PyccName].classes = EmptyDict
    /\ last_call.before.modules[PyccName].functions = EmptyDict
    /\ last_call.before.modules[PyccName].description = ModuleFromStub
    /\ last_call.before.modules[PyccName].enums = EmptyDict
    /\ DOMAIN api_data.modules = {PyccName, CccorelibName}
    /\ api_data.modules[CccorelibName].description = ModuleFromDocumentation
    /\ api_data.modules[CccorelibName].constants = EmptyDict

\* the arguments of a FunctionDef that become parameters, and the position
\* of the k-th of them among all arguments
NotSelf(args) == SelectSeq(args, LAMBDA a : a.arg # SelfName)
RECURSIVE PositionOf(_, _)
PositionOf(args, k) ==
    IF Head(args).arg = SelfName THEN 1 + PositionOf(Tail(args), k)
    ELSE IF k = 1 THEN 1 ELSE 1 + PositionOf(Tail(args), k - 1)

\* what the claim says of the parameters and the return of one method
DeclaredAs(record, func_node) ==
    LET args == NotSelf(func_node.args)
        leading == Len(func_node.args) - Len(func_node.defaults)
    IN  /\ Len(record.parameters) = Len(args)
        /\ \A k \in 1..Len(args) :
              LET parameter == record.parameters[k]
                  position == PositionOf(func_node.args, k)
              IN  /\ parameter.name = args[k].arg
                  /\ parameter.required = (position <= leading)
                  /\ ("default" \in DOMAIN parameter) = (position > leading)
                  /\ (position > leading
                      /\ func_node.defaults[position - leading].node = "Constant")
                         => parameter.default = func_node.defaults[position - leading].value
                  /\ args[k].annotation.node = "Name"
                         => parameter.type = args[k].annotation.id
        /\ func_node.returns.node = "Name" => record.returns = [type |-> func_node.returns.id]

\* C15: in a scan where nothing can be imported, after the stub scan of one
\* file that parses, every public method of every class of the file is
\* recorded with its parameters in declaration order without self, required
\* exactly when it has no default, each default on the parameter it was
\* written for, the types and the return type that are plain names as
\* written, and the class's parent_classes are its bases that are plain names
C15_StubMethodsAsDeclared ==
    (/\ last_call.op = "_scan_stub_files" /\ ~last_call.live.has_pycc
     /\ Len(last_call.files) = 1 /\ last_call.files[1].readable
     /\ last_call.files[1].ast.ok)
        => LET stub == last_call.files[1]
               module == api_data.modules[ModuleOfStub(stub.path)]
           IN  \A n \in 1..Len(stub.ast.nodes) :
                   LET node == stub.ast.nodes[n]
                   IN  node.node = "ClassDef" =>
                           /\ module.classes[node.name].parent_classes = NameIds(node.bases)
                           /\ \A b \in 1..Len(node.body) :
                                 ~IsSkippedName(node.body[b].name) =>
                                     DeclaredAs(module.classes[node.name]
                                                    .methods[node.body[b].name],
                                                node.body[b])

C15_Witness ==
    /\ last_call.op = "_scan_stub_files" /\ ~last_call.live.has_pycc
    /\ last_call.files = <<FooStub>>
    /\ LET Foo == api_data.modules[PyccName].classes[<<"F", "o", "o">>]
       IN  /\ Foo.parent_classes = <<<<"B", "a", "r">>>>
           /\ Foo.methods[<<"b", "a", "r">>].returns = [type |-> <<"b", "o", "o", "l">>]
           /\ Foo.methods[<<"b", "a", "r">>].parameters
                  = <<[name |-> <<"x">>, type |-> <<"i", "n", "t">>, required |-> TRUE],
                      [name |-> <<"y">>, type |-> <<"s", "t", "r">>, required |-> FALSE,
                       default |-> PyStr(<<"z">>)]>>

\* C18 (as stated): no stage of scan_all before the save raises out of it
C18_NoUnitFailureEndsScanAll ==
    ~(last_call.op = "raised" /\ Stage # "_save_results")

(***************************************************************************)
(* Specification SpecRequest: query is called once on a CloudCompareAI     *)
(* object whose conversation_history holds the entries of up to            *)
(* MaxPriorTurns earlier queries.                                          *)
(***************************************************************************)
MaxPriorTurns == 3

\* the two entries an earlier query left
PriorTurns ==
    {<<Entry("user", p), Entry("assistant", ResponseText(o))>> :
        p \in Prompts, o \in {RequestOk(ReplyNoCode), RequestRaises(<<"t", "i", "m", "e", "o", "u", "t">>)}}

RECURSIVE PriorHistories(_)
PriorHistories(n) ==
    IF n = 0 THEN {<<>>}
    ELSE PriorHistories(n - 1)
             \cup {h \o t : h \in {g \in PriorHistories(n - 1) : Len(g) = 2 * (n - 1)},
                            t \in PriorTurns}

InitRequest ==
    /\ \E exists \in BOOLEAN : api_docs = _load_api_docs(exists, ScannedBase)
    /\ conversation_history \in PriorHistories(MaxPriorTurns)
    /\ last_request = <<>>
    /\ last_call = Idle
    /\ GuiUnused /\ TextUnused /\ ScanUnused

QueryOnce(user_input, include_history, outcome) ==
    /\ last_call = Idle
    /\ LET r == query(conversation_history, api_docs, user_input, include_history, outcome)
       IN  /\ conversation_history' = r.conversation_history
           /\ last_request' = r.messages
           /\ last_call' = [op |-> "query", user_input |-> user_input,
                            include_history |-> include_history, outcome |-> outcome,
                            result |-> r.result, raised |-> r.raised]
    /\ UNCHANGED <<guiVars, textVars, api_docs, scanVars>>

NextRequest ==
    \E user_input \in Prompts : \E include_history \in BOOLEAN :
       \E outcome \in RequestOutcomes({ReplyNoCode, ReplyOneBlock}) :
          QueryOnce(user_input, include_history, outcome)

SpecRequest == InitRequest /\ [][NextRequest]_vars

\* the entries the history held before the query that has just returned
PriorEntries == SubSeq(conversation_history, 1, Len(conversation_history) - 2)
\* what the request carries between its first and its last message
Inserted == SubSeq(last_request, 2, Len(last_request) - 1)

\* C19: the request of a query starts with its only system message and ends
\* with the current user turn, a user message that opens with the input; in
\* between it carries nothing when include_history is false or there are no
\* earlier entries, and otherwise the 5 most recent earlier entries (all of
\* them when there are fewer), in their order, the current input not among them
C19_RequestIsSystemWindowCurrentTurn ==
    last_call.op = "query" =>
        /\ Len(last_request) >= 2
        /\ last_request[1].role = "system"
        /\ \A i \in 2..Len(last_request) : last_request[i].role # "system"
        /\ last_request[Len(last_request)].role = "user"
        /\ StartsWith(last_request[Len(last_request)].content, last_call.user_input)
        /\ Len(Inserted) = IF ~last_call.include_history THEN 0
                           ELSE IF Len(PriorEntries) <= 5 THEN Len(PriorEntries) ELSE 5
        /\ Inserted = SubSeq(PriorEntries, Len(PriorEntries) - Len(Inserted) + 1,
                             Len(PriorEntries))

\* a query with six earlier entries: the oldest one is left out
C19_Witness ==
    /\ last_call.op = "query" /\ last_call.include_history
    /\ Len(PriorEntries) = 6
    /\ Len(last_request) = 7
    /\ Inserted = SubSeq(PriorEntries, 2, 6)
    /\ PriorEntries[1] # PriorEntries[3] /\ PriorEntries[2] # PriorEntries[6]
    /\ last_request[7].content # PriorEntries[5].content

(***************************************************************************)
(* The stub scan and the nodes of a class body (lines 421-463)             *)
(***************************************************************************)
\* the number of FunctionDef nodes held in the bodies of the classes
RECURSIVE MethodCount(_)
MethodCount(nodes) ==
    IF nodes = <<>> THEN 0
    ELSE (IF Head(nodes).node = "ClassDef" THEN Len(Head(nodes).body) ELSE 0)
             + MethodCount(Tail(nodes))

\* the nodes of tree.body: ast.walk yields them first, and the nodes of the
\* class bodies after them
ModuleLevel(nodes) == SubSeq(nodes, 1, Len(nodes) - MethodCount(nodes))

\* the names of the module-level function definitions that are not skipped
ModuleLevelFunctions(nodes) ==
    {ModuleLevel(nodes)[n].name :
        n \in {k \in 1..Len(ModuleLevel(nodes)) :
                  /\ ModuleLevel(nodes)[k].node = "FunctionDef"
                  /\ ~IsSkippedName(ModuleLevel(nodes)[k].name)}}

\* C21 (as stated): in a scan where nothing can be imported, after the stub
\* scan of one file that parses, the functions of its module are exactly
\* the module-level function definitions of the file that are public or
\* named __init__; no method of a class body is among them
C21_FunctionsAreTheModuleLevelDefinitions ==
    (/\ last_call.op = "_scan_stub_files" /\ ~last_call.live.has_pycc
     /\ Len(last_call.files) = 1 /\ last_call.files[1].readable
     /\ last_call.files[1].ast.ok)
        => LET stub == last_call.files[1]
           IN  DOMAIN api_data.modules[ModuleOfStub(stub.path)].functions
                   = ModuleLevelFunctions(stub.ast.nodes)

(***************************************************************************)
(* Specification SpecInfer: _infer_module_from_path                        *)
(* (src/ccAPIScanner.py:622-662) is called on documentation files whose    *)
(* directory, file name and text are drawn from the sets below.            *)
(***************************************************************************)
DocDirectories ==
    {<<"d", "o", "c", "s">>,
     <<"d", "o", "c", "s", "/", "P", "y", "C", "C">>,
     <<"d", "o", "c", "s", "/", "c", "c", "c", "o", "r", "e", "l", "i", "b">>,
     <<"l", "i", "b", "/", "p", "y", "t", "h", "o", "n", "/", "p", "y", "c", "c", "/", "c", "c", "c", "o", "r", "e", "l", "i", "b">>,
     <<"l", "i", "b", "/", "p", "y", "t", "h", "o", "n", "/", "c", "c", "c", "o", "r", "e", "l", "i", "b", "/", "p", "y", "c", "c">>,
     <<"p", "y", "c", "c", "/", "c", "c", "c", "o", "r", "e", "l", "i", "b">>}
DocFileNames ==
    {<<"a", "p", "i", ".", "r", "s", "t">>,
     <<"p", "y", "c", "c", ".", "r", "s", "t">>,
     <<"C", "C", "C", "o", "r", "e", "L", "i", "b", ".", "m", "d">>,
     <<"i", "n", "d", "e", "x", ".", "m", "d">>}
DocTexts ==
    {<<>>,
     <<"i", "m", "p", "o", "r", "t", " ", "p", "y", "c", "c", "\n">>,
     <<"C", "C", "C", "o", "r", "e", "L", "i", "b", " ", "t", "o", "o", "l", "s", "\n">>,
     <<"p", "y", "c", "c", " ", "a", "n", "d", " ", "c", "c", "c", "o", "r", "e", "l", "i", "b", "\n">>,
     <<"S", "e", "e", " ", "t", "h", "e", " ", "R", "E", "A", "D", "M", "E", ".", "\n">>}

InferInputs ==
    {[path |-> d \o <<"/">> \o f, text |-> t] :
        d \in DocDirectories, f \in DocFileNames, t \in DocTexts}

InitInfer ==
    /\ last_call = Idle
    /\ GuiUnused /\ AiUnused /\ TextUnused /\ ScanUnused

InferModuleFromPath(doc) ==
    /\ last_call' = [op |-> "_infer_module_from_path", path |-> doc.path,
                     text |-> doc.text, result |-> _infer_module_from_path(doc)]
    /\ UNCHANGED <<guiVars, aiVars, textVars, scanVars>>

NextInfer == \E doc \in InferInputs : InferModuleFromPath(doc)

SpecInfer == InitInfer /\ [][NextInfer]_vars

\* what the path, the file name and the text of the last call name, in
\* lower case
PathNames(module_name) == Contains(Lower(last_call.path), module_name)
FileNameNames(module_name) ==
    Contains(SplitOn(Lower(last_call.path), "/")[Len(SplitOn(Lower(last_call.path), "/"))], module_name)
TextNames(module_name) == Contains(Lower(last_call.text), module_name)
PathNamesOne == PathNames(PyccName) # PathNames(CccorelibName)
PathHolds(module_name) ==
    Contains(Lower(last_call.path), <<"/", "p", "y", "t", "h", "o", "n", "/">> \o module_name)

\* C22 (as stated): a path naming exactly one module decides; otherwise a
\* text naming exactly one module decides, a text naming both under a file
\* name naming neither gives common, and a text naming neither gives
\* unknown; the result is one of the four names
C22_PathThenContentDecides ==
    last_call.op = "_infer_module_from_path" =>
        /\ last_call.result \in {PyccName, CccorelibName, CommonName, UnknownName}
        /\ (PathNames(PyccName) /\ ~PathNames(CccorelibName)) => last_call.result = PyccName
        /\ (PathNames(CccorelibName) /\ ~PathNames(PyccName))
               => last_call.result = CccorelibName
        /\ ~PathNamesOne =>
               /\ (TextNames(PyccName) /\ ~TextNames(CccorelibName))
                      => last_call.result = PyccName
               /\ (TextNames(CccorelibName) /\ ~TextNames(PyccName))
                      => last_call.result = CccorelibName
               /\ (/\ TextNames(PyccName) /\ TextNames(CccorelibName)
                   /\ ~FileNameNames(PyccName) /\ ~FileNameNames(CccorelibName))
                      => last_call.result = CommonName
               /\ (~TextNames(PyccName) /\ ~TextNames(CccorelibName))
                      => last_call.result = UnknownName

\* C22 (amended): a path naming exactly one module decides; otherwise a
\* path holding /python/pycc gives pycc and else one holding
\* /python/cccorelib gives cccorelib; otherwise a text naming exactly one
\* module decides, a text naming both gives the module the file name names
\* (pycc first) or common when it names neither, and a text naming neither
\* gives unknown
C22_PathThenPatternThenContentDecides ==
    last_call.op = "_infer_module_from_path" =>
        /\ last_call.result \in {PyccName, CccorelibName, CommonName, UnknownName}
        /\ (PathNames(PyccName) /\ ~PathNames(CccorelibName)) => last_call.result = PyccName
        /\ (PathNames(CccorelibName) /\ ~PathNames(PyccName))
               => last_call.result = CccorelibName
        /\ (~PathNamesOne /\ PathHolds(PyccName)) => last_call.result = PyccName
        /\ (~PathNamesOne /\ ~PathHolds(PyccName) /\ PathHolds(CccorelibName))
               => last_call.result = CccorelibName
        /\ (~PathNamesOne /\ ~PathHolds(PyccName) /\ ~PathHolds(CccorelibName)) =>
               /\ (TextNames(PyccName) /\ ~TextNames(CccorelibName))
                      => last_call.result = PyccName
               /\ (TextNames(CccorelibName) /\ ~TextNames(PyccName))
                      => last_call.result = CccorelibName
               /\ (TextNames(PyccName) /\ TextNames(CccorelibName)) =>
                      last_call.result
                          = IF FileNameNames(PyccName) THEN PyccName
                            ELSE IF FileNameNames(CccorelibName) THEN CccorelibName
                            ELSE CommonName
               /\ (~TextNames(PyccName) /\ ~TextNames(CccorelibName))
                      => last_call.result = UnknownName

\* a path naming both modules and holding /python/pycc, a text naming
\* cccorelib alone
C22_Witness ==
    /\ last_call.op = "_infer_module_from_path"
    /\ PathNames(PyccName) /\ PathNames(CccorelibName) /\ PathHolds(PyccName)
    /\ TextNames(CccorelibName) /\ ~TextNames(PyccName)
    /\ last_call.result = PyccName

(***************************************************************************)
(* key_functions of a workflow (lines 900-906), under SpecScan             *)
(***************************************************************************)
\* target a comes before target b in the order of key_functions: a is
\* called more often, or as often and was met first
Before(function_calls, a, b) ==
    LET x == DictGet(function_calls, a)
        y == DictGet(function_calls, b)
    IN  \/ x.count > y.count
        \/ x.count = y.count /\ DictIndex(function_calls, a) < DictIndex(function_calls, b)

\* C23: after _extract_workflows, the key_functions of every workflow are
\* call targets of its example record, all of them when there are at most
\* 5 and else 5, each one called more often than the next or as often and
\* met earlier, and every target left out comes after every one that is kept
C23_KeyFunctionsAreTheStableTopFive ==
    last_call.op = "_extract_workflows" =>
        \A w \in 1..Len(api_data.workflows) :
            LET workflow == api_data.workflows[w]
                function_calls == DictGet(api_data.example_scripts, workflow.key).function_calls
                key_functions == workflow.key_functions
            IN  /\ Len(key_functions)
                       = IF Len(function_calls) <= 5 THEN Len(function_calls) ELSE 5
                /\ \A i \in 1..Len(key_functions) : DictHas(function_calls, key_functions[i])
                /\ \A i \in 1..(Len(key_functions) - 1) :
                       Before(function_calls, key_functions[i], key_functions[i + 1])
                /\ \A k \in 1..Len(function_calls) :
                       (\A i \in 1..Len(key_functions) : key_functions[i] # function_calls[k].key)
                           => \A i \in 1..Len(key_functions) :
                                  Before(function_calls, key_functions[i], function_calls[k].key)

\* seven targets, four of them called once: the two met first are kept
C23_Witness ==
    /\ last_call.op = "_extract_workflows"
    /\ DictHas(api_data.workflows, ManyCallsFile.name)
    /\ Len(DictGet(api_data.example_scripts, ManyCallsFile.name).function_calls) = 7
    /\ DictGet(api_data.workflows, ManyCallsFile.name).key_functions
           = <<"h", "b.c", "e", "a", "d">>

(***************************************************************************)
(* The sessions of the chat window, under Spec                             *)
(***************************************************************************)
\* C24 (as stated): a start_new_chat from the New Chat action makes current
\* an id that no session had, leaves every session there was as it was and
\* adds exactly one session
C24_NewChatIdIsFresh ==
    [][(last_call'.op = "start_new_chat" /\ Len(historyList') = Len(historyList) + 1) =>
          /\ ~DictHas(chat_history, current_chat_id')
          /\ Len(chat_history') = Len(chat_history) + 1
          /\ SubSeq(chat_history', 1, Len(chat_history)) = chat_history]_vars

\* C25 (as stated): while the window runs, current_chat_id is the id of a
\* session of chat_history
C25_CurrentChatExists ==
    running => DictHas(chat_history, current_chat_id)

\* the sidebar items of a chat id
ItemsOf(chat_id) == {i \in 1..Len(historyList) : historyList[i].chat_id = chat_id}

\* C26 (as stated): while the window runs, every session of chat_history has
\* exactly one sidebar item and every sidebar item is that of a session
C26_SidebarAgreesWithSessions ==
    running =>
        /\ \A k \in DictKeys(chat_history) : Cardinality(ItemsOf(k)) = 1
        /\ \A i \in 1..Len(historyList) : DictHas(chat_history, historyList[i].chat_id)

\* C27 (as stated): a send_message call that shows a code block appends
\* the user message and then the code-block message to the session that
\* was current when it started, after the messages that session had
C27_BothMessagesInTheStartingSession ==
    [][(/\ last_call'.op = "send_message" /\ last_call'.sent
        /\ last_call'.executed # <<>>
        /\ Len(conversation_history') = Len(conversation_history) + 2
        /\ DictHas(chat_history, current_chat_id)) =>
          /\ DictHas(chat_history', current_chat_id)
          /\ LET before == DictGet(chat_history, current_chat_id).messages
                 after == DictGet(chat_history', current_chat_id).messages
             IN  /\ Len(after) = Len(before) + 2
                 /\ SubSeq(after, 1, Len(before)) = before
                 /\ after[Len(before) + 1].is_user
                 /\ ~after[Len(before) + 2].is_user]_vars

SessionOf(mapping, chat_id) ==
    IF DictHas(mapping, chat_id) THEN <<DictGet(mapping, chat_id)>> ELSE <<>>

\* C29 (as stated): a click on the delete button of a session that is not
\* the current one removes that session and leaves current_chat_id and every
\* other session as they were; a click on that of the current session leaves
\* current_chat_id on a session there is
C29_DeleteRemovesOnlyThatSession ==
    [][\A position \in 1..Len(historyList) :
          (/\ last_call'.op = "delete_chat"
           /\ windowVars' = LET w == delete_chat(Window, historyList[position].chat_id, now)
                            IN  <<w.chat_history, w.historyList, w.current_chat_id,
                                  w.messagesLayout>>) =>
              LET chat_id == historyList[position].chat_id
              IN  IF chat_id # current_chat_id
                  THEN /\ current_chat_id' = current_chat_id
                       /\ ~DictHas(chat_history', chat_id)
                       /\ \A k \in DictKeys(chat_history) \ {chat_id} :
                              SessionOf(chat_history', k) = SessionOf(chat_history, k)
                       /\ DictKeys(chat_history') = DictKeys(chat_history) \ {chat_id}
                  ELSE DictHas(chat_history', current_chat_id')]_vars

(***************************************************************************)
(* Specification SpecFormat: format_for_cloudcompare_exec                  *)
(* (src/ccChatWindow.py:677-742) is called on a code block of at most      *)
(* MaxFormatUnits units.  text_in is the list of units received so far; the *)
(* code is their concatenation.                                            *)
(***************************************************************************)
MaxFormatUnits == 6

FormatUnits == {<<" ">>, <<" ", " ", " ", " ">>, <<"x">>, <<"\n">>, <<"'">>}

InitFormat ==
    /\ text_in = <<>> /\ text_out = NotCalled
    /\ last_call = Idle
    /\ GuiUnused /\ AiUnused /\ ScanUnused

ReceiveCode(u) ==
    /\ Len(text_in) < MaxFormatUnits
    /\ text_in' = Append(text_in, u)
    /\ text_out' = NotCalled
    /\ UNCHANGED <<guiVars, aiVars, last_call, scanVars>>

FormatCode ==
    /\ ~text_out.called
    /\ text_out' = [called |-> TRUE,
                    value |-> format_for_cloudcompare_exec(Flatten(text_in))]
    /\ UNCHANGED <<text_in, guiVars, aiVars, last_call, scanVars>>

NextFormat == (\E u \in FormatUnits : ReceiveCode(u)) \/ FormatCode

SpecFormat == InitFormat /\ [][NextFormat]_vars

\* the number of white-space characters a line begins with
LeadingSpaces(line) == Len(line) - Len(LStrip(line))

\* C30 (as stated): every non-blank line of the output begins with no white
\* space or with at least 4 white-space characters: it is the line of the
\* code as it was when that line begins with at least 4, and else a line
\* that begins with none
C30_IndentIsZeroOrAtLeastFour ==
    text_out.called =>
        LET lines == SplitOn(Unquote(UnwrapExec(Flatten(text_in))), "\n")
            processed_lines == SplitOn(text_out.value, "\n")
        IN  /\ \A i \in 1..Len(processed_lines) :
                   Strip(processed_lines[i]) # <<>> =>
                       \/ LeadingSpaces(processed_lines[i]) = 0
                       \/ LeadingSpaces(processed_lines[i]) >= 4
            /\ Len(processed_lines) = Len(lines)
            /\ \A i \in 1..Len(lines) :
                   Strip(lines[i]) # <<>> =>
                       IF LeadingSpaces(lines[i]) >= 4 THEN processed_lines[i] = lines[i]
                       ELSE LeadingSpaces(processed_lines[i]) = 0

====
